---- MODULE Spec2Model ----
(***************************************************************************)
(* Model of the Instagram monitor (monitor.py): the acquisition cascade,   *)
(* the change detector and the persistence of a monitoring run.            *)
(*                                                                         *)
(* Python values are modelled as tagged pairs <<tag, payload>>, so that a  *)
(* value of the wrong type (as a hand-edited or foreign JSON file may      *)
(* hold) is a value of the model and not a TLC type error.  A dict is a    *)
(* record over Fields in which an absent key holds Missing.                *)
(***************************************************************************)
EXTENDS Integers, Sequences, FiniteSets, TLC

\* ------------------------------------------------------------------ bounds

\* follower counts range over 0, CountScale, ..., MaxCount * CountScale
MaxCount == 2
\* step between two modelled counts (above 1000/2: thousands groups appear)
CountScale == 525
\* monitoring runs per behaviour of Spec
MaxRuns == 2
\* largest retention count tried besides the default
MaxKeep == 2
\* longest --target-user argument tried
MaxHandleLen == 3
\* the handles of a batch, at most
MaxBatch == 3
\* checks of the profile picture per behaviour
MaxChecks == 3
\* WorkflowManager calls per behaviour
MaxCalls == 3
\* usernames of one --add-users call, at most
MaxAdd == 2
\* entries of a list of the friends analysis, at most
MaxFriends == 3
\* --max-users, at most
MaxUsers == 4

\* ------------------------------------------------------------ Python values

Missing == <<"missing", 0>>
JNull == <<"null", 0>>
JInt(n) == <<"int", n>>
JStr(s) == <<"str", s>>
JBool(b) == <<"bool", b>>
\* a JSON list, by its length
JList(n) == <<"list", n>>
\* the instaloader Profile object held under "profile_object"
PyObject == <<"object", 0>>
PyDict(rec) == <<"dict", rec>>
\* the embedded change set of a summary
JChanges(cs) == <<"changes", cs>>

Tag(v) == v[1]
Val(v) == v[2]

Fields ==
    {"username", "full_name", "followers", "following", "posts", "bio",
     "is_private", "is_verified", "profile_pic_url", "profile_pic_url_hd",
     "method", "error", "profile_object", "external_url", "timestamp",
     "profile_url", "data_collection_method", "changes", "last_updated",
     "other"}

EmptyDict == [f \in Fields |-> Missing]

\* d1 | d2 restricted to the keys given in kv (a record over a subset of Fields)
WithKeys(d, kv) == [f \in Fields |-> IF f \in DOMAIN kv THEN kv[f] ELSE d[f]]

\* dict.get(key, default)
Get(d, key, default) == IF d[key] = Missing THEN default ELSE d[key]

\* bool(x) / "not x" of Python
Truthy(v) ==
    CASE Tag(v) = "null" -> FALSE
      [] Tag(v) = "missing" -> FALSE
      [] Tag(v) = "int" -> Val(v) # 0
      [] Tag(v) = "str" -> Val(v) # ""
      [] Tag(v) = "bool" -> Val(v)
      [] Tag(v) = "list" -> Val(v) > 0
      [] Tag(v) = "dict" -> \E f \in Fields : Val(v)[f] # Missing
      [] OTHER -> TRUE

\* int and bool are the numeric types here (bool is a subclass of int)
NumLike(v) == Tag(v) \in {"int", "bool"}
PyInt(v) == IF Tag(v) = "bool" THEN (IF Val(v) THEN 1 ELSE 0) ELSE Val(v)

\* a == b of Python on the modelled values
PyEq(a, b) ==
    IF NumLike(a) /\ NumLike(b) THEN PyInt(a) = PyInt(b)
    ELSE IF Tag(a) = Tag(b) THEN a = b
    ELSE FALSE

\* ------------------------------------------------------- number formatting

Abs(n) == IF n < 0 THEN 0 - n ELSE n

\* the digit groups of format(n, ","): 1050 is <<1, 50>>, printed "1,050"
RECURSIVE Groups(_)
Groups(n) == IF n < 1000 THEN <<n>> ELSE Append(Groups(n \div 1000), n % 1000)

\* f"{n:,}": a minus sign only for negative numbers
FormatComma(n) == [sign |-> IF n < 0 THEN "-" ELSE "", groups |-> Groups(Abs(n))]
\* f"{n:+,}": always a sign
FormatPlusComma(n) == [sign |-> IF n < 0 THEN "-" ELSE "+", groups |-> Groups(Abs(n))]

\* reading a formatted number back
RECURSIVE GroupsValue(_)
GroupsValue(g) ==
    IF Len(g) = 0 THEN 0
    ELSE GroupsValue(SubSeq(g, 1, Len(g) - 1)) * 1000 + g[Len(g)]
FormattedValue(fmt) ==
    IF fmt.sign = "-" THEN 0 - GroupsValue(fmt.groups) ELSE GroupsValue(fmt.groups)

\* ------------------------------------------------------------- descriptors

\* A change descriptor is a string in the code; here it is its fixed text
\* together with the formatted numbers interpolated into it.
FirstTimeText == "First time monitoring this user"
Descriptor(text, nums) == [text |-> text, nums |-> nums]

\* the numeric descriptor with the difference taken the wrong way round
NumericDescriptor_Mut(label, old, new) ==
    Descriptor(label, <<FormatComma(old), FormatComma(new), FormatPlusComma(old - new)>>)

\* f"{label}: {old_val:,} -> {new_val:,} ({diff:+,})"
NumericDescriptor(label, old, new) ==
    Descriptor(label, <<FormatComma(old), FormatComma(new), FormatPlusComma(new - old)>>)
\* f"{label} changed"
TextDescriptor(label) == Descriptor(label, <<>>)

\* ---------------------------------------------------------- detect_changes

\* the numeric fields listed in another order
NumericFieldLabels_Mut ==
    <<<<"posts", "Posts">>, <<"followers", "Followers">>, <<"following", "Following">>>>

NumericFieldLabels ==
    <<<<"followers", "Followers">>, <<"following", "Following">>, <<"posts", "Posts">>>>
TextFieldLabels == <<<<"bio", "Bio changed">>, <<"full_name", "Display name changed">>>>

\* the numeric loop that would leave the counts of a placeholder summary alone
NumericStep_Mut(acc, current_data, historical, fl) ==
    IF acc.raised \/ historical["method"] = JStr("fallback") THEN acc
    ELSE LET old_val == Get(historical, fl[1], JInt(0))
             new_val == Get(current_data, fl[1], JInt(0))
         IN IF PyEq(new_val, old_val) THEN acc
            ELSE IF NumLike(old_val) /\ NumLike(new_val)
                 THEN [acc EXCEPT
                         !.changes_detected =
                             Append(@, NumericDescriptor(fl[2], PyInt(old_val), PyInt(new_val))),
                         !.has_changes = TRUE]
                 ELSE [acc EXCEPT !.raised = TRUE]

\* one iteration of the loop over the numeric fields; acc.raised records an
\* exception leaving detect_changes (TypeError of new_val - old_val)
NumericStep(acc, current_data, historical, fl) ==
    IF acc.raised THEN acc
    ELSE LET old_val == Get(historical, fl[1], JInt(0))
             new_val == Get(current_data, fl[1], JInt(0))
         IN IF PyEq(new_val, old_val) THEN acc
            ELSE IF NumLike(old_val) /\ NumLike(new_val)
                 THEN [acc EXCEPT
                         !.changes_detected =
                             Append(@, NumericDescriptor(fl[2], PyInt(old_val), PyInt(new_val))),
                         !.has_changes = TRUE]
                 ELSE [acc EXCEPT !.raised = TRUE]

\* the text loop reading the old value under a key the summary never holds
TextStep_Mut(acc, current_data, historical, fl) ==
    IF acc.raised THEN acc
    ELSE LET old_val == JStr("")
             new_val == Get(current_data, fl[1], JStr(""))
         IN IF PyEq(new_val, old_val) THEN acc
            ELSE [acc EXCEPT !.changes_detected = Append(@, TextDescriptor(fl[2])),
                             !.has_changes = TRUE]

\* one iteration of the loop over the text fields
TextStep(acc, current_data, historical, fl) ==
    IF acc.raised THEN acc
    ELSE LET old_val == Get(historical, fl[1], JStr(""))
             new_val == Get(current_data, fl[1], JStr(""))
         IN IF PyEq(new_val, old_val) THEN acc
            ELSE [acc EXCEPT !.changes_detected = Append(@, TextDescriptor(fl[2])),
                             !.has_changes = TRUE]

RECURSIVE NumericLoop(_, _, _, _)
NumericLoop(acc, current_data, historical, i) ==
    IF i > Len(NumericFieldLabels) THEN acc
    ELSE NumericLoop(NumericStep(acc, current_data, historical, NumericFieldLabels[i]),
                     current_data, historical, i + 1)

RECURSIVE TextLoop(_, _, _, _)
TextLoop(acc, current_data, historical, i) ==
    IF i > Len(TextFieldLabels) THEN acc
    ELSE TextLoop(TextStep(acc, current_data, historical, TextFieldLabels[i]),
                  current_data, historical, i + 1)

NoChanges(now) ==
    [raised |-> FALSE, has_changes |-> FALSE, changes_detected |-> <<>>, timestamp |-> now]

\* the branch taken when historical_data is falsy
FirstTimeChanges(now) ==
    [NoChanges(now) EXCEPT !.changes_detected = <<Descriptor(FirstTimeText, <<>>)>>,
                           !.has_changes = TRUE]

\* detect_changes without the return that ends the first-time branch
detect_changes_Mut(current_data, historical_data, now) ==
    IF ~Truthy(historical_data)
    THEN TextLoop(NumericLoop(FirstTimeChanges(now), current_data, EmptyDict, 1),
                  current_data, EmptyDict, 1)
    ELSE IF Tag(historical_data) # "dict"
         THEN [NoChanges(now) EXCEPT !.raised = TRUE]
         ELSE TextLoop(NumericLoop(NoChanges(now), current_data, Val(historical_data), 1),
                       current_data, Val(historical_data), 1)

\* detect_changes(current_data, historical_data): current_data is a dict
\* (a record over Fields), historical_data is whatever json.load returned.
detect_changes(current_data, historical_data, now) ==
    IF ~Truthy(historical_data) THEN FirstTimeChanges(now)
    ELSE IF Tag(historical_data) # "dict"
         THEN [NoChanges(now) EXCEPT !.raised = TRUE]
         ELSE TextLoop(NumericLoop(NoChanges(now), current_data, Val(historical_data), 1),
                       current_data, Val(historical_data), 1)


\* ------------------------------------------------------------------ files

\* A JSON file is absent, unparseable, or holds a JSON value.
Absent == <<"absent", 0>>
Corrupt == <<"corrupt", 0>>
JsonFile(v) == <<"json", v>>

\* lines 551-558: historical_summary = {} unless the file exists and parses
LoadHistorical(file) == IF Tag(file) = "json" THEN Val(file) ELSE PyDict(EmptyDict)

\* lines 560-566: history_data, with its default when the file is absent or
\* unparseable
LoadHistory(file, target_user) ==
    IF Tag(file) = "json" THEN Val(file)
    ELSE [entries |-> <<>>, username |-> target_user, last_updated |-> 0]

\* lst[-k:] of Python (k = 0 gives the whole list, since -0 = 0)
SliceLast(lst, k) ==
    IF k = 0 THEN lst
    ELSE IF k > 0 THEN (IF k >= Len(lst) THEN lst ELSE SubSeq(lst, Len(lst) - k + 1, Len(lst)))
    ELSE SubSeq(lst, (0 - k) + 1, Len(lst))

\* ------------------------------------------------------------- strategies

Users == {"alice"}

\* what the upstream answers to Profile.from_username and the attribute reads
Outcomes == {"ok", "login_required", "not_found", "network_error", "parse_error"}

\* the upstream profiles of the monitoring runs of Spec
Profiles(username) ==
    [username : {username}, full_name : {""}, followers : {0, CountScale},
     followees : {1}, mediacount : {2}, biography : {"bio"},
     is_private : BOOLEAN, is_verified : {FALSE}, profile_pic_url : {"https://pic"},
     external_url : {JNull}]

\* x or y on strings
StrOr(x, y) == IF x # "" THEN x ELSE y

\* lines 368-381 and 403-416: the dict either strategy builds from a profile
StrategyData(profile, method) ==
    WithKeys(EmptyDict,
        [username |-> JStr(profile.username),
         full_name |-> JStr(StrOr(profile.full_name, profile.username)),
         followers |-> JInt(profile.followers),
         following |-> JInt(profile.followees),
         posts |-> JInt(profile.mediacount),
         bio |-> JStr(profile.biography),
         is_private |-> JBool(profile.is_private),
         is_verified |-> JBool(profile.is_verified),
         profile_pic_url |-> JStr(profile.profile_pic_url),
         profile_pic_url_hd |-> JStr(profile.profile_pic_url),
         method |-> JStr(method),
         profile_object |-> PyObject])

\* the value a strategy hands back: result is None (JNull) or the dict;
\* raised says that an exception left the strategy instead
StrategyResult(result, raised, session) ==
    [result |-> result, raised |-> raised, session |-> session]

\* lines 355-359: L.login is called when the credentials are set and loading
\* the session file raised FileNotFoundError
LoggedIn(creds, session) == creds /\ ~session

\* the test of line 360 left out: the new session is always saved
SaveSession_Mut(ci) == TRUE

\* lines 360-362: the session obtained by login is saved unless CI is "true"
SaveSession(ci) == ~ci

\* try_authenticated_method: creds = both credentials are set, ci = (CI is
\* "true"), session = a session file exists, login_ok = L.login succeeds,
\* outcome = what the profile fetch does
try_authenticated_method(username, creds, ci, session, login_ok, outcome, profile) ==
    IF ~creds THEN StrategyResult(JNull, FALSE, session)
    ELSE IF LoggedIn(creds, session) /\ ~login_ok THEN StrategyResult(JNull, FALSE, session)
    ELSE LET saved == session \/ SaveSession(ci)
         IN IF outcome = "ok"
            THEN StrategyResult(
                     PyDict(WithKeys(StrategyData(profile, "authenticated_api"),
                                     [external_url |-> profile.external_url])),
                     FALSE, saved)
            ELSE StrategyResult(JNull, FALSE, saved)

\* try_anonymous_method as it would be without its handler for the
\* profile-not-found exception and the final catch-all
try_anonymous_method_Mut(username, outcome, profile) ==
    CASE outcome = "ok" ->
            StrategyResult(PyDict(StrategyData(profile, "anonymous_api")), FALSE, FALSE)
      [] outcome = "login_required" -> StrategyResult(JNull, FALSE, FALSE)
      [] OTHER -> StrategyResult(JNull, TRUE, FALSE)

\* try_anonymous_method: every exception is turned into None
try_anonymous_method(username, outcome, profile) ==
    CASE outcome = "ok" ->
            StrategyResult(PyDict(StrategyData(profile, "anonymous_api")), FALSE, FALSE)
      [] outcome = "login_required" -> StrategyResult(JNull, FALSE, FALSE)
      [] outcome = "not_found" -> StrategyResult(JNull, FALSE, FALSE)
      [] OTHER -> StrategyResult(JNull, FALSE, FALSE)

\* the placeholder as it would be with the privacy flag left at its default
FallbackData_Mut(target_user) ==
    WithKeys(EmptyDict,
        [username |-> JStr(target_user),
         full_name |-> JStr(target_user),
         followers |-> JInt(0),
         following |-> JInt(0),
         posts |-> JInt(0),
         bio |-> JStr(""),
         is_private |-> JBool(FALSE),
         is_verified |-> JBool(FALSE),
         profile_pic_url |-> JStr(""),
         profile_pic_url_hd |-> JStr(""),
         method |-> JStr("fallback"),
         error |-> JStr("Unable to access profile data"),
         profile_object |-> JNull])

\* lines 574-588: the placeholder
FallbackData(target_user) ==
    WithKeys(EmptyDict,
        [username |-> JStr(target_user),
         full_name |-> JStr(target_user),
         followers |-> JInt(0),
         following |-> JInt(0),
         posts |-> JInt(0),
         bio |-> JStr(""),
         is_private |-> JBool(TRUE),
         is_verified |-> JBool(FALSE),
         profile_pic_url |-> JStr(""),
         profile_pic_url_hd |-> JStr(""),
         method |-> JStr("fallback"),
         error |-> JStr("Unable to access profile data"),
         profile_object |-> JNull])

\* "a or b" as it would be if b were evaluated whatever a is
OrElse_Mut(result, next) == next

\* lines 571-589, "a or b or c": the right operand is evaluated only when
\* the left one is falsy
OrElse(result, next) == IF Truthy(result) THEN "detect" ELSE next

\* lines 591-600: current_data, with profile_object popped
CurrentData(profile_data, target_user, now) ==
    WithKeys(profile_data,
        [timestamp |-> JInt(now),
         profile_url |-> <<"url", target_user>>,
         data_collection_method |-> Get(profile_data, "method", JStr("unknown")),
         profile_object |-> Missing])

\* ------------------------------------------------------------ friends list

FriendNames == {"f1"}

\* analyze_friend_changes (lines 177-187), lists taken as the sets they are
\* turned into
analyze_friend_changes(current_followers, previous_followers, current_followings, previous_followings, now) ==
    [new_followers |-> current_followers \ previous_followers,
     lost_followers |-> previous_followers \ current_followers,
     new_followings |-> current_followings \ previous_followings,
     unfollowed |-> previous_followings \ current_followings,
     timestamp |-> now]

\* load_previous_friends_data (lines 230-254), one file
LoadFriends(file) == IF Tag(file) = "json" THEN Val(file) ELSE {}

\* f"{label}: {len(names)}"
CountDescriptor(label, names) == Descriptor(label, <<FormatComma(Cardinality(names))>>)

\* one "if friend_changes[key]:" block of lines 629-643 as it would be
\* without its assignment to has_changes
MergeOne_Mut(changes, label, names) ==
    IF names = {} THEN changes
    ELSE [changes EXCEPT !.changes_detected = Append(@, CountDescriptor(label, names))]

\* one "if friend_changes[key]:" block of lines 629-643
MergeOne(changes, label, names) ==
    IF names = {} THEN changes
    ELSE [changes EXCEPT !.changes_detected = Append(@, CountDescriptor(label, names)),
                         !.has_changes = TRUE]

\* lines 629-643: the four blocks in their order
MergeFriendChanges(changes, fc) ==
    MergeOne(MergeOne(MergeOne(MergeOne(changes,
        "New followers", fc.new_followers),
        "Lost followers", fc.lost_followers),
        "New followings", fc.new_followings),
        "Unfollowed", fc.unfollowed)

\* lines 645-659: friend_changes_log.json, last 50 entries
FriendLogKeep == 50
LoadLog(file) == IF Tag(file) = "json" THEN Val(file) ELSE <<>>
\* the log that is cut at its end: a full log drops the entry just appended
AppendLog_Mut(file, entry, keep) ==
    LET entries == Append(LoadLog(file), entry)
    IN JsonFile(SubSeq(entries, 1, IF Len(entries) > keep THEN keep ELSE Len(entries)))

AppendLog(file, entry, keep) == JsonFile(SliceLast(Append(LoadLog(file), entry), keep))

\* ------------------------------------------------------------ persistence

\* int(x or 0), bool(x)
IntOr0(v) == IF Truthy(v) THEN PyInt(v) ELSE 0

\* lines 666-679
QuickStats(current_data, target_user, now) ==
    WithKeys(EmptyDict,
        [username |-> current_data["username"],
         followers |-> JInt(IntOr0(Get(current_data, "followers", JInt(0)))),
         following |-> JInt(IntOr0(Get(current_data, "following", JInt(0)))),
         posts |-> JInt(IntOr0(Get(current_data, "posts", JInt(0)))),
         last_updated |-> JInt(now),
         is_private |-> JBool(Truthy(Get(current_data, "is_private", JBool(FALSE)))),
         is_verified |-> JBool(Truthy(Get(current_data, "is_verified", JBool(FALSE)))),
         method |-> Get(current_data, "data_collection_method", JNull),
         profile_pic_url |-> Get(current_data, "profile_pic_url", JStr("")),
         profile_pic_url_hd |-> Get(current_data, "profile_pic_url_hd", JStr("")),
         full_name |-> Get(current_data, "full_name", JStr(target_user)),
         bio |-> Get(current_data, "bio", JStr(""))])

\* lines 685-692
HistoryEntry(quick_stats, now) ==
    WithKeys(EmptyDict,
        [timestamp |-> JInt(now),
         followers |-> quick_stats["followers"],
         following |-> quick_stats["following"],
         posts |-> quick_stats["posts"],
         is_private |-> quick_stats["is_private"],
         method |-> quick_stats["method"]])

\* the ledger update without the append of line 693
UpdateHistory_Mut(history_data, entry, history_keep, target_user, now) ==
    [entries |-> SliceLast(history_data.entries, history_keep),
     username |-> target_user,
     last_updated |-> now]

\* the ledger update with the new entry put in front instead of appended
UpdateHistory_MutFront(history_data, entry, history_keep, target_user, now) ==
    [entries |-> SliceLast(<<entry>> \o history_data.entries, history_keep),
     username |-> target_user,
     last_updated |-> now]

\* lines 693-696
UpdateHistory(history_data, entry, history_keep, target_user, now) ==
    [entries |-> SliceLast(Append(history_data.entries, entry), history_keep),
     username |-> target_user,
     last_updated |-> now]

\* --history-keep (line 922): its default
HistoryKeepDefault == 100
HistoryKeeps == {HistoryKeepDefault}
\* lines 699-711: changes_log.json, last 50 entries
ChangesLogKeep == 50

\* the change set as it is serialized (raised is no part of the dict)
ChangeSet(changes) ==
    [has_changes |-> changes.has_changes,
     changes_detected |-> changes.changes_detected,
     timestamp |-> changes.timestamp]

\* line 604 and 682: the summary holds current_data with the change set as it
\* is when the file is written (the dict is shared, not copied)
Summary(current_data, changes) ==
    WithKeys(current_data, [changes |-> JChanges(ChangeSet(changes))])

\* ------------------------------------------------------------------ state

VARIABLES
    pc,                 \* position of the monitoring run
    runs,               \* runs started so far; the clock of the model
    target_user,        \* handle of the run in progress
    run_result,         \* how the last run ended
    tried,              \* strategies attempted by the run in progress
    session_file,       \* a saved session exists
    summary_file, stats_file, history_file, changes_file,
    followers_file, followings_file, friend_changes_file,
    historical_summary, history_data, profile_data, current_data, changes,
    d_pc, d_file, d_current, d_historical, d_changes,
    history_keep,       \* --history-keep of the scheduled job
    tmp_files,          \* the ".tmp" sibling of each artifact
    argv_user,          \* --target-user as typed, a sequence of characters
    handle,             \* user of main, line 1060
    enable_email,       \* ENABLE_EMAIL_NOTIFICATIONS after main has read --enable-email
    notifier_calls,     \* the calls of send_email_notification: what each returned
    batch_pc,           \* where main is in a batch: "off", "main", "loop", "exited"
    mode,               \* "single", "batch_users" (--batch-users) or "queue_batch"
    queue_count,        \* args.queue_batch
    update_queue,       \* args.update_queue
    workflow_mode,      \* args.workflow_mode
    users_to_process,   \* the handles of the batch, as typed or as queued
    batch_i,            \* the position of the loop in users_to_process
    batch_file,         \* batch_summary.json
    queue_file,         \* monitoring_queue.json
    io_log,             \* what the batch did on behalf of which handle, in order
    pic_pc,             \* the picture tracker: "off" or "idle" (between two checks)
    pic_checks,         \* checks done, the clock of the archive names
    pic_current,        \* the "current" picture of the archive directory
    pic_tmp,            \* the temporary path of the download
    pic_archive,        \* the timestamped slots of the archive directory, in order
    pic_served,         \* what the last check was served, and the URL of the current picture
    pic_result,         \* what the last check reported
    restore_i,          \* restore_all_users.py: the position of its loop (0: not running)
    other_friends,      \* the followers and followings files of the handles not running
    procs,              \* the processes of two overlapping runs on one directory
    auth_pc,            \* the authenticated strategy alone: "off", "ready" or "done"
    auth_env,           \* what it finds: credentials, CI, session file, upstream
    auth_out,           \* what it returned, whether it called L.login, the session file after
    wf_pc,              \* workflow_integration.py: "off", "ready" or "done"
    wf_args,            \* the arguments of the WorkflowManager call
    wf_friends,         \* <source_user>_friends_analysis.json
    wf_file,            \* monitoring_queue.json as the workflow manager keeps it
    wf_calls,           \* WorkflowManager calls made so far
    srv_pc,             \* config_server.py: "off" or "serving"
    srv_file,           \* instagram_monitor_config.json
    srv_request,        \* the request served last
    srv_response        \* the response to it

fileVars == <<summary_file, stats_file, history_file, changes_file,
              followers_file, followings_file, friend_changes_file>>
localVars == <<historical_summary, history_data, profile_data, current_data, changes>>
detectVars == <<d_pc, d_file, d_current, d_historical, d_changes>>
cfgVars == <<history_keep, enable_email>>
envVars == <<cfgVars, tmp_files, argv_user, handle>>
batchVars == <<batch_pc, mode, queue_count, update_queue, workflow_mode, users_to_process,
               batch_i, batch_file, queue_file, io_log>>
picVars == <<pic_pc, pic_checks, pic_current, pic_tmp, pic_archive, pic_served, pic_result>>
restoreVars == <<restore_i, other_friends>>
authVars == <<auth_pc, auth_env, auth_out>>
wfVars == <<wf_pc, wf_args, wf_friends, wf_file, wf_calls>>
srvVars == <<srv_pc, srv_file, srv_request, srv_response>>
toolVars == <<wfVars, srvVars>>
outerVars == <<batchVars, picVars, restoreVars, procs, authVars, toolVars>>
\* what a batch, a picture check, the restore script, overlapping runs and
\* the authenticated strategy alone leave alone
notBatch == <<picVars, restoreVars, procs, authVars, toolVars>>
notPic == <<batchVars, restoreVars, procs, authVars, toolVars>>
notRestore == <<batchVars, picVars, procs, authVars, toolVars>>
notOverlap == <<batchVars, picVars, restoreVars, authVars, toolVars>>
notAuth == <<batchVars, picVars, restoreVars, procs, toolVars>>
notWf == <<batchVars, picVars, restoreVars, procs, authVars, srvVars>>
notSrv == <<batchVars, picVars, restoreVars, procs, authVars, wfVars>>
vars == <<pc, runs, target_user, run_result, tried, session_file,
          fileVars, localVars, detectVars, envVars, notifier_calls, outerVars>>

NoUser == ""

\* the artifacts that write_json_atomic writes for a handle
Artifacts == {"stats", "summary", "history", "changes"}

\* a file whose JSON text ends in the middle
Partial == <<"partial", 0>>

NoTmpFiles == [a \in Artifacts |-> Absent]

\* no run has started
ProcessInit ==
    /\ pc = "idle"
    /\ runs = 0
    /\ target_user = NoUser
    /\ run_result = "none"
    /\ tried = <<>>
    /\ session_file = FALSE
    /\ followers_file = Absent
    /\ followings_file = Absent
    /\ friend_changes_file = Absent
    /\ historical_summary = PyDict(EmptyDict)
    /\ history_data = LoadHistory(Absent, NoUser)
    /\ profile_data = JNull
    /\ current_data = EmptyDict
    /\ changes = NoChanges(0)
    /\ tmp_files = NoTmpFiles

\* the output directory of a handle that was never monitored
FreshFiles ==
    /\ summary_file = Absent
    /\ stats_file = Absent
    /\ history_file = Absent
    /\ changes_file = Absent

RunInit == ProcessInit /\ FreshFiles

DetectIdle ==
    /\ d_pc = "off"
    /\ d_file = Absent
    /\ d_current = EmptyDict
    /\ d_historical = PyDict(EmptyDict)
    /\ d_changes = NoChanges(0)

\* main has not parsed a handle
MainIdle == argv_user = <<>> /\ handle = <<>>

\* line 34: notifications are off unless --enable-email is given
NotifyOff == enable_email = FALSE /\ notifier_calls = <<>>

\* no batch is running
BatchIdle ==
    /\ batch_pc = "off"
    /\ mode = "single"
    /\ queue_count = 0
    /\ update_queue = FALSE
    /\ workflow_mode = FALSE
    /\ users_to_process = <<>>
    /\ batch_i = 0
    /\ batch_file = Absent
    /\ queue_file = Absent
    /\ io_log = <<>>

NoFile == [exists |-> FALSE, bytes |-> <<>>]
PicFile(bytes) == [exists |-> TRUE, bytes |-> bytes]

PicResult(changed, kind, error) == [changed |-> changed, kind |-> kind, error |-> error]

\* no picture is being tracked
PicIdle ==
    /\ pic_pc = "off"
    /\ pic_checks = 0
    /\ pic_current = NoFile
    /\ pic_tmp = NoFile
    /\ pic_archive = <<>>
    /\ pic_served = [url |-> "", download |-> "ok", body |-> <<>>, current_url |-> ""]
    /\ pic_result = PicResult(FALSE, "none", FALSE)

\* restore_all_users.py, lines 12-18
DEFAULT_USERS == <<"therock", "cristiano", "selenagomez", "taylorswift", "kimkardashian">>

DefaultUserSet == {DEFAULT_USERS[i] : i \in 1..Len(DEFAULT_USERS)}

\* lines 191-192 and 232-233: the followers and followings files carry the
\* handle in their names; no handle has any before its first run
NoFriendsFiles == [u \in DefaultUserSet |-> [followers |-> Absent, followings |-> Absent]]

\* the restore script is not running
RestoreIdle == restore_i = 0 /\ other_friends = NoFriendsFiles

\* the overlapping processes
Procs == {1, 2}

\* a process before it starts: user is its handle; the locals of
\* fetch_enhanced_profile_data; art is the artifact write_json_atomic is
\* writing, fd where the file it has open is now ("tmp": still under the
\* ".tmp" name, "dest": renamed over the artifact by the other process, "gone":
\* replaced there by a later rename); clobbered says that the other process
\* wrote into the same open file; log is the changes log as read at line 704
NewProc(where) ==
    [pc |-> where, user |-> NoUser, now |-> 0, art |-> "stats",
     historical_summary |-> PyDict(EmptyDict),
     history_data |-> LoadHistory(Absent, NoUser),
     current_data |-> EmptyDict,
     changes |-> NoChanges(0),
     log |-> <<>>, fd |-> "none", clobbered |-> FALSE]

\* no overlapping runs
OverlapIdle == procs = [p \in Procs |-> NewProc("off")]

\* what try_authenticated_method finds: creds = both credentials are set,
\* ci = (CI is "true"), session = a session file exists, login_ok = L.login
\* succeeds, outcome and profile = what the profile fetch does
AuthEnv(creds, ci, session, login_ok, outcome, profile) ==
    [creds |-> creds, ci |-> ci, session |-> session, login_ok |-> login_ok,
     outcome |-> outcome, profile |-> profile]

\* what the call left: its return value, whether L.login was called and
\* whether a session file exists afterwards
AuthOut(result, login, session) == [result |-> result, login |-> login, session |-> session]

\* the strategy is not run on its own
AuthIdle ==
    /\ auth_pc = "off"
    /\ auth_env = AuthEnv(FALSE, FALSE, FALSE, FALSE, "ok",
                          CHOOSE pr \in Profiles(NoUser) : TRUE)
    /\ auth_out = AuthOut(JNull, FALSE, FALSE)

\* the arguments of a WorkflowManager call (workflow_integration.py, lines
\* 44-45 and 378)
WfArgs(op, usernames, categories, max_users, priority_mutual) ==
    [op |-> op, usernames |-> usernames, categories |-> categories,
     max_users |-> max_users, priority_mutual |-> priority_mutual]

NoWfArgs == WfArgs("none", <<>>, {}, 0, FALSE)

\* the workflow manager is not run
WfIdle ==
    /\ wf_pc = "off"
    /\ wf_args = NoWfArgs
    /\ wf_friends = Absent
    /\ wf_file = Absent
    /\ wf_calls = 0

\* config_server.py, lines 17-41: the keys of a configuration that are
\* followed here, three of DEFAULT_CONFIG and one that it does not know
KnownKeys == {"smtpPassword", "smtpHost", "enableEmailNotifications"}
CfgKeys == KnownKeys \cup {"theme"}

\* a JSON object over these keys
EmptyCfg == [k \in CfgKeys |-> Missing]

\* a request: GET, or POST with a body that is a JSON object, another JSON
\* value or no JSON at all
Request(method, kind, body) == [method |-> method, kind |-> kind, body |-> body]
NoRequest == Request("none", "none", EmptyCfg)

\* lines 80-86 and 120-123, 145-164: status code, "success" and "config"
Response(code, success, config) == [code |-> code, success |-> success, config |-> config]
NoResponse == Response(0, FALSE, EmptyCfg)

\* the configuration server is not run
SrvIdle ==
    /\ srv_pc = "off"
    /\ srv_file = Absent
    /\ srv_request = NoRequest
    /\ srv_response = NoResponse

ToolsIdle == WfIdle /\ SrvIdle

\* main runs one handle (lines 1054-1063): nothing else is going on
OuterIdle == BatchIdle /\ PicIdle /\ RestoreIdle /\ OverlapIdle /\ AuthIdle /\ ToolsIdle

Init == RunInit /\ DetectIdle /\ history_keep \in HistoryKeeps /\ MainIdle /\ NotifyOff
    /\ OuterIdle

\* lines 35-41: SMTP_HOST, SMTP_USER, SMTP_PASSWORD, SENDER_EMAIL and
\* RECEIVER_EMAIL; nothing in monitor.py assigns them
SmtpSettings == <<"", "", "", "", "">>

\* lines 73-107: what the call returns; smtp_ok says that the SMTP dialogue
\* of lines 78-104 raised nothing
send_email_notification(enabled, settings, smtp_ok) ==
    IF ~enabled \/ \E i \in 1..Len(settings) : settings[i] = ""
    THEN FALSE
    ELSE smtp_ok

\* lines 713-724: the notifier is called when notifications are enabled and
\* the change set has changes
Notify(ch) ==
    IF enable_email /\ ch.has_changes
    THEN Append(notifier_calls, send_email_notification(enable_email, SmtpSettings, TRUE))
    ELSE notifier_calls

Attempt(strategy, outcome, result) ==
    [strategy |-> strategy, outcome |-> outcome, produced |-> Truthy(result)]

\* an exception leaves fetch_enhanced_profile_data: the run is over
Raise(where) ==
    /\ pc' = "idle"
    /\ run_result' = where

\* the process ends: nothing is left of the locals of the run
LocalsGone ==
    /\ tried' = <<>>
    /\ historical_summary' = PyDict(EmptyDict)
    /\ history_data' = LoadHistory(Absent, NoUser)
    /\ profile_data' = JNull
    /\ current_data' = EmptyDict
    /\ changes' = NoChanges(0)

\* lines 541-568: the run starts and loads what the previous run left
StartRunFor(user) ==
    /\ pc = "idle"
    /\ runs < MaxRuns
    /\ target_user' = user
    /\ historical_summary' = LoadHistorical(summary_file)
    /\ history_data' = LoadHistory(history_file, user)
    /\ runs' = runs + 1
    /\ pc' = "auth"
    /\ run_result' = "running"
    /\ UNCHANGED <<tried, profile_data, current_data, changes, session_file,
                   summary_file, stats_file, history_file, changes_file,
                   friend_changes_file, detectVars, envVars, notifier_calls>>

\* main, lines 1054-1070: the single handle of --target-user
StartRun ==
    /\ \E user \in Users : StartRunFor(user)
    /\ UNCHANGED <<followers_file, followings_file, outerVars>>

\* line 572: the first operand of the "or" chain
TryAuthenticated ==
    /\ pc = "auth"
    /\ \E creds \in BOOLEAN, ci \in BOOLEAN, login_ok \in BOOLEAN,
          outcome \in Outcomes, profile \in Profiles(target_user) :
        LET r == try_authenticated_method(target_user, creds, ci, session_file,
                                          login_ok, outcome, profile)
        IN /\ session_file' = r.session
           /\ IF r.raised
              THEN Raise("raised_in_acquire") /\ LocalsGone
              ELSE /\ pc' = OrElse(r.result, "anon")
                   /\ tried' = Append(tried,
                          Attempt("authenticated",
                                  IF creds THEN outcome ELSE "no_credentials", r.result))
                   /\ profile_data' = r.result
                   /\ UNCHANGED <<run_result, historical_summary, history_data,
                                  current_data, changes>>
    /\ UNCHANGED <<runs, target_user, fileVars, detectVars, envVars, notifier_calls, outerVars>>

\* line 573: the second operand
TryAnonymous ==
    /\ pc = "anon"
    /\ \E outcome \in Outcomes, profile \in Profiles(target_user) :
        LET r == try_anonymous_method(target_user, outcome, profile)
        IN IF r.raised
           THEN Raise("raised_in_acquire") /\ LocalsGone
           ELSE /\ pc' = OrElse(r.result, "fallback")
                /\ tried' = Append(tried, Attempt("anonymous", outcome, r.result))
                /\ profile_data' = r.result
                /\ UNCHANGED <<run_result, historical_summary, history_data,
                               current_data, changes>>
    /\ UNCHANGED <<runs, target_user, session_file, fileVars, detectVars, envVars,
                   notifier_calls, outerVars>>

\* lines 574-588: the last operand, the placeholder dict
Fallback ==
    /\ pc = "fallback"
    /\ profile_data' = PyDict(FallbackData(target_user))
    /\ tried' = Append(tried, Attempt("fallback", "ok", profile_data'))
    /\ pc' = "detect"
    /\ UNCHANGED <<runs, target_user, run_result, session_file, fileVars,
                   historical_summary, history_data, current_data, changes, detectVars, envVars,
                   notifier_calls, outerVars>>

\* lines 591-604: current_data and its change set
Detect ==
    /\ pc = "detect"
    /\ LET cd == CurrentData(Val(profile_data), target_user, runs)
           ch == detect_changes(cd, historical_summary, runs)
       IN IF ch.raised
          THEN Raise("raised_in_detect") /\ LocalsGone
          ELSE /\ pc' = "friends"
               /\ current_data' = cd
               /\ changes' = ch
               /\ UNCHANGED <<run_result, tried, historical_summary, history_data,
                              profile_data>>
    /\ UNCHANGED <<runs, target_user, session_file, fileVars, detectVars, envVars,
                   notifier_calls, outerVars>>

\* lines 606-663: the friends lists, for a public profile that a strategy
\* fetched.  The lists are empty when tracking is disabled or the fetch fails.
Friends ==
    /\ pc = "friends"
    /\ IF Truthy(Val(profile_data)["profile_object"])
          /\ ~Truthy(Get(current_data, "is_private", JBool(FALSE)))
       THEN \E current_followers \in SUBSET FriendNames,
               current_followings \in SUBSET FriendNames :
            LET previous_followers == LoadFriends(followers_file)
                previous_followings == LoadFriends(followings_file)
                fc == analyze_friend_changes(current_followers, previous_followers,
                                             current_followings, previous_followings, runs)
                merged == MergeFriendChanges(changes, fc)
            IN IF current_followers # {} \/ current_followings # {}
               THEN /\ followers_file' = JsonFile(current_followers)
                    /\ followings_file' = JsonFile(current_followings)
                    /\ IF previous_followers # {} \/ previous_followings # {}
                       THEN /\ changes' = merged
                            /\ IF merged.has_changes
                               THEN friend_changes_file' =
                                        AppendLog(friend_changes_file, fc, FriendLogKeep)
                               ELSE UNCHANGED friend_changes_file
                       ELSE UNCHANGED <<changes, friend_changes_file>>
               ELSE UNCHANGED <<changes, followers_file, followings_file,
                                friend_changes_file>>
       ELSE UNCHANGED <<changes, followers_file, followings_file, friend_changes_file>>
    /\ pc' = "persist"
    /\ UNCHANGED <<runs, target_user, run_result, tried, session_file, summary_file,
                   stats_file, history_file, changes_file, historical_summary,
                   history_data, profile_data, current_data, detectVars, envVars,
                   notifier_calls, outerVars>>

\* lines 665-747: the artifacts are written and the run returns True
Persist ==
    /\ pc = "persist"
    /\ LET quick_stats == QuickStats(current_data, target_user, runs)
           entry == HistoryEntry(quick_stats, runs)
       IN /\ stats_file' = JsonFile(PyDict(quick_stats))
          /\ summary_file' = JsonFile(PyDict(Summary(current_data, changes)))
          /\ history_file' =
                 JsonFile(UpdateHistory(history_data, entry, history_keep, target_user, runs))
    /\ IF changes.has_changes
       THEN changes_file' = AppendLog(changes_file, ChangeSet(changes), ChangesLogKeep)
       ELSE UNCHANGED changes_file
    /\ notifier_calls' = Notify(changes)
    /\ pc' = "idle"
    /\ run_result' = "returned_true"
    /\ LocalsGone
    /\ UNCHANGED <<runs, target_user, session_file, followers_file,
                   followings_file, friend_changes_file, detectVars, envVars,
                   outerVars>>

Next ==
    \/ StartRun
    \/ TryAuthenticated
    \/ TryAnonymous
    \/ Fallback
    \/ Detect
    \/ Friends
    \/ Persist

Spec == Init /\ [][Next]_vars

\* ------------------------------------------------ retention of the ledger

\* --history-keep is an int of the command line (line 922)
KeepChoices == 0..MaxKeep

SeenUser == "alice"

\* what an earlier run at time t observed
EarlierSnapshot(t) == CurrentData(FallbackData(SeenUser), SeenUser, t)

\* the ledger after MaxKeep + 1 earlier runs with a larger --history-keep
EarlierLedger ==
    [entries |-> [i \in 1..(MaxKeep + 1) |->
                     HistoryEntry(QuickStats(EarlierSnapshot(i - MaxKeep - 1), SeenUser,
                                             i - MaxKeep - 1),
                                  i - MaxKeep - 1)],
     username |-> SeenUser,
     last_updated |-> 0]

\* the output directory of a handle that earlier runs left behind
SeenFiles ==
    /\ summary_file = JsonFile(PyDict(Summary(EarlierSnapshot(0), NoChanges(0))))
    /\ stats_file = JsonFile(PyDict(QuickStats(EarlierSnapshot(0), SeenUser, 0)))
    /\ history_file = JsonFile(EarlierLedger)
    /\ changes_file = AppendLog(Absent, ChangeSet(FirstTimeChanges(0 - MaxKeep)),
                                ChangesLogKeep)

InitHistory ==
    /\ ProcessInit
    /\ FreshFiles \/ SeenFiles
    /\ DetectIdle
    /\ history_keep \in KeepChoices
    /\ MainIdle
    /\ NotifyOff
    /\ OuterIdle

SpecHistory == InitHistory /\ [][Next]_vars

\* ------------------------------------- persistence step by step, with faults

\* write_json_atomic that opens the destination itself
InterruptedWrite_Mut(dest, tmp) == [dest |-> Partial, tmp |-> tmp]

\* lines 68-70 cut short (killed, or open/json.dump raised): the text went to
\* the ".tmp" sibling
InterruptedWrite(dest, tmp) == [dest |-> dest, tmp |-> Partial]

\* lines 68-70 completed
DumpedTmp(dest, tmp, data) == [dest |-> dest, tmp |-> JsonFile(data)]

\* line 71: os.replace moves the sibling over the destination in one step
Replaced(dest, tmp) == [dest |-> tmp, tmp |-> Absent]

\* positions of the run inside lines 681-711
DumpPc == [stats |-> "persist", summary |-> "write_summary",
           history |-> "write_history", changes |-> "write_changes"]
ReplacePc == [stats |-> "replace_stats", summary |-> "replace_summary",
              history |-> "replace_history", changes |-> "replace_changes"]

Dest(a) ==
    [stats |-> stats_file, summary |-> summary_file,
     history |-> history_file, changes |-> changes_file][a]

WriteDest(a, file) ==
    /\ stats_file' = IF a = "stats" THEN file ELSE stats_file
    /\ summary_file' = IF a = "summary" THEN file ELSE summary_file
    /\ history_file' = IF a = "history" THEN file ELSE history_file
    /\ changes_file' = IF a = "changes" THEN file ELSE changes_file

\* the second argument of each write_json_atomic call (lines 681, 682, 697, 711)
ArtifactData(a) ==
    LET quick_stats == QuickStats(current_data, target_user, runs)
    IN CASE a = "stats" -> PyDict(quick_stats)
         [] a = "summary" -> PyDict(Summary(current_data, changes))
         [] a = "history" -> UpdateHistory(history_data, HistoryEntry(quick_stats, runs),
                                           history_keep, target_user, runs)
         [] a = "changes" -> Val(AppendLog(changes_file, ChangeSet(changes), ChangesLogKeep))

\* where the run goes after the call for artifact a returned
AfterWrite(a) ==
    CASE a = "stats" -> "write_summary"
      [] a = "summary" -> "write_history"
      [] a = "history" -> IF changes.has_changes THEN "write_changes" ELSE "idle"
      [] a = "changes" -> "idle"

\* lines 68-70 of one call
DumpTmp ==
    \E a \in Artifacts :
        /\ pc = DumpPc[a]
        /\ LET w == DumpedTmp(Dest(a), tmp_files[a], ArtifactData(a))
           IN /\ tmp_files' = [tmp_files EXCEPT ![a] = w.tmp]
              /\ WriteDest(a, w.dest)
        /\ pc' = ReplacePc[a]
        /\ UNCHANGED <<runs, target_user, run_result, tried, session_file, followers_file,
                       followings_file, friend_changes_file, localVars, detectVars,
                       cfgVars, argv_user, handle, notifier_calls, outerVars>>

\* line 71 of one call; after the last call the run returns True (line 747)
ReplaceTmp ==
    \E a \in Artifacts :
        /\ pc = ReplacePc[a]
        /\ LET w == Replaced(Dest(a), tmp_files[a])
           IN /\ tmp_files' = [tmp_files EXCEPT ![a] = w.tmp]
              /\ WriteDest(a, w.dest)
        /\ pc' = AfterWrite(a)
        /\ IF AfterWrite(a) = "idle"
           THEN /\ run_result' = "returned_true"
                /\ notifier_calls' = Notify(changes)
                /\ LocalsGone
           ELSE UNCHANGED <<run_result, tried, localVars, notifier_calls>>
        /\ UNCHANGED <<runs, target_user, session_file, followers_file,
                       followings_file, friend_changes_file, detectVars, cfgVars,
                       argv_user, handle, outerVars>>

\* what artifact a is left as when the run stops at the position pc: cut says
\* that lines 68-70 had begun
Stopped(a, cut) ==
    IF pc = DumpPc[a] /\ cut
    THEN InterruptedWrite(Dest(a), tmp_files[a])
    ELSE [dest |-> Dest(a), tmp |-> tmp_files[a]]

StopWrite ==
    \E cut \in BOOLEAN :
        /\ tmp_files' = [a \in Artifacts |-> Stopped(a, cut).tmp]
        /\ stats_file' = Stopped("stats", cut).dest
        /\ summary_file' = Stopped("summary", cut).dest
        /\ history_file' = Stopped("history", cut).dest
        /\ changes_file' = Stopped("changes", cut).dest

\* the process is killed inside lines 681-711; the model follows the directory
\* of the handle up to there
Kill ==
    /\ \E a \in Artifacts : pc \in {DumpPc[a], ReplacePc[a]}
    /\ StopWrite
    /\ pc' = "down"
    /\ run_result' = "killed"
    /\ LocalsGone
    /\ UNCHANGED <<runs, target_user, session_file, followers_file,
                   followings_file, friend_changes_file, detectVars, cfgVars, argv_user, handle,
                   notifier_calls, outerVars>>

\* open, json.dump or replace raises OSError; nothing in
\* fetch_enhanced_profile_data catches it, main does (lines 1111-1115)
WriteFails ==
    /\ \E a \in Artifacts : pc \in {DumpPc[a], ReplacePc[a]}
    /\ StopWrite
    /\ pc' = "down"
    /\ run_result' = "raised_in_persist"
    /\ LocalsGone
    /\ UNCHANGED <<runs, target_user, session_file, followers_file,
                   followings_file, friend_changes_file, detectVars, cfgVars, argv_user, handle,
                   notifier_calls, outerVars>>

NextCrash ==
    \/ StartRun
    \/ TryAuthenticated
    \/ TryAnonymous
    \/ Fallback
    \/ Detect
    \/ Friends
    \/ DumpTmp
    \/ ReplaceTmp
    \/ Kill
    \/ WriteFails

SpecCrash == Init /\ [][NextCrash]_vars

\* main, lines 1060-1115: the exit status of the single-user process.  The
\* handle that is empty after line 1060 and every exception of the run give 1,
\* the run that returned True gives 0.
ExitCode(result) ==
    CASE result = "invalid_handle" -> 1
      [] result = "returned_true" -> 0
      [] result \in {"raised_in_acquire", "raised_in_detect", "raised_in_persist"} -> 1

Exited == run_result \in {"invalid_handle", "returned_true", "raised_in_acquire",
                          "raised_in_detect", "raised_in_persist"}

\* --------------------------------------------- the handle of the command line

\* the characters a handle is typed with: the sign, white space, a lowercase
\* and an uppercase letter
HandleChars == {"@", " ", "a", "B"}
Whitespace == {" "}

RECURSIVE SeqsUpTo(_)
SeqsUpTo(n) ==
    IF n = 0 THEN {<<>>}
    ELSE LET shorter == SeqsUpTo(n - 1)
         IN shorter \cup {Append(s, c) : s \in {t \in shorter : Len(t) = n - 1},
                                          c \in HandleChars}

Handles == SeqsUpTo(MaxHandleLen)

\* str.replace("@", ""): every occurrence goes
RemoveAt(s) == SelectSeq(s, LAMBDA c : c # "@")

\* str.strip()
RECURSIVE LStrip(_)
LStrip(s) == IF s # <<>> /\ Head(s) \in Whitespace THEN LStrip(Tail(s)) ELSE s
RECURSIVE RStrip(_)
RStrip(s) ==
    IF s # <<>> /\ s[Len(s)] \in Whitespace THEN RStrip(SubSeq(s, 1, Len(s) - 1)) ELSE s
Strip(s) == RStrip(LStrip(s))

\* line 1060: user = args.target_user.replace("@", "").strip()
NormalizeHandle(raw) == Strip(RemoveAt(raw))

\* lines 1054-1063: the handle is taken from the command line; the empty one
\* ends the process with status 1, any other goes on to the run
ParseHandle ==
    /\ pc = "idle"
    /\ run_result = "none"
    /\ handle' = NormalizeHandle(argv_user)
    /\ IF argv_user = <<>> \/ handle' = <<>>
       THEN pc' = "down" /\ run_result' = "invalid_handle"
       ELSE pc' = "main" /\ run_result' = "handle_accepted"
    /\ UNCHANGED <<runs, target_user, tried, session_file, fileVars, localVars,
                   detectVars, cfgVars, tmp_files, argv_user, notifier_calls, outerVars>>

NextHandle == ParseHandle

InitHandle ==
    /\ RunInit
    /\ DetectIdle
    /\ history_keep \in HistoryKeeps
    /\ argv_user \in Handles
    /\ handle = <<>>
    /\ NotifyOff
    /\ OuterIdle

SpecHandle == InitHandle /\ [][NextHandle]_vars

\* ----------------------------------------------- the change detector alone

\* The inputs of the detector: any current snapshot a strategy can build and
\* any content of monitoring_summary.json, a malformed one included.

DetectUser == "alice"

CountValues == {k * CountScale : k \in 0..MaxCount}

CurrentProfiles ==
    [username : {DetectUser}, full_name : {"", "Alice"}, followers : CountValues,
     followees : {1, CountScale + 1}, mediacount : {2, 3}, biography : {"", "bio"},
     is_private : BOOLEAN, is_verified : {FALSE}, profile_pic_url : {"https://pic"},
     external_url : {JNull}]

PreviousProfiles ==
    [username : {DetectUser}, full_name : {"Alice"}, followers : CountValues,
     followees : {1, CountScale + 1}, mediacount : {2}, biography : {"", "bio"},
     is_private : BOOLEAN, is_verified : {FALSE}, profile_pic_url : {"https://pic"},
     external_url : {JNull}]

\* current_data of a run whose anonymous strategy fetched the profile
CurrentOf(profile, now) ==
    CurrentData(StrategyData(profile, "anonymous_api"), DetectUser, now)

\* the summaries an earlier run leaves: of a fetched profile or the placeholder
WellFormedSummaries ==
    {Summary(CurrentOf(p, 0), FirstTimeChanges(0)) : p \in PreviousProfiles}
    \cup {Summary(CurrentData(FallbackData(DetectUser), DetectUser, 0), FirstTimeChanges(0))}

CountFields == {"followers", "following", "posts"}
TextFields == {"bio", "full_name"}
ComparableFields == CountFields \cup TextFields \cup {"is_private"}

\* what a malformed file holds in place of a field: nothing, or a value of
\* another type
DefectValues(f) ==
    IF f \in CountFields THEN {Missing, JStr("12"), JNull, JBool(TRUE)}
    ELSE IF f \in TextFields THEN {Missing, JInt(7), JNull}
    ELSE {Missing, JStr("yes")}

MalformedSummaries ==
    UNION {{[d EXCEPT ![f] = v] : d \in WellFormedSummaries, v \in DefectValues(f)} :
           f \in ComparableFields}

\* valid JSON that is no snapshot at all
OtherJson ==
    {JNull, JInt(0), JInt(5), JStr(""), JStr("x"), JList(0), JList(2),
     JBool(FALSE), JBool(TRUE), PyDict(EmptyDict),
     PyDict(WithKeys(EmptyDict, [other |-> JInt(1)]))}

\* the tags a snapshot carries (lines 379, 415, 585)
MethodTags == {"authenticated_api", "anonymous_api", "fallback"}

\* the same snapshot as another strategy would have tagged it; the placeholder
\* tag comes with the error field (line 586)
Retag(d, m) ==
    WithKeys(d, [method |-> JStr(m),
                 data_collection_method |-> JStr(m),
                 error |-> IF m = "fallback" THEN JStr("Unable to access profile data")
                           ELSE Missing])

DetectFiles ==
    {Absent, Corrupt}
    \cup {JsonFile(PyDict(d)) : d \in WellFormedSummaries \cup MalformedSummaries}
    \cup {JsonFile(v) : v \in OtherJson}

DetectInit ==
    /\ d_pc = "load"
    /\ d_file \in DetectFiles
    /\ d_current \in {CurrentOf(p, 1) : p \in CurrentProfiles}
                     \cup {CurrentData(FallbackData(DetectUser), DetectUser, 1)}
    /\ d_historical = PyDict(EmptyDict)
    /\ d_changes = NoChanges(0)

\* lines 551-558
DLoad ==
    /\ d_pc = "load"
    /\ d_historical' = LoadHistorical(d_file)
    /\ d_pc' = "detect"
    /\ UNCHANGED <<d_file, d_current, d_changes>>
    /\ UNCHANGED <<pc, runs, target_user, run_result, tried, session_file,
                   fileVars, localVars, envVars, notifier_calls, outerVars>>

\* line 603
DDetect ==
    /\ d_pc = "detect"
    /\ d_changes' = detect_changes(d_current, d_historical, 1)
    /\ d_pc' = "done"
    /\ UNCHANGED <<d_file, d_current, d_historical>>
    /\ UNCHANGED <<pc, runs, target_user, run_result, tried, session_file,
                   fileVars, localVars, envVars, notifier_calls, outerVars>>

NextDetect == DLoad \/ DDetect

InitDetect == RunInit /\ DetectInit /\ history_keep \in HistoryKeeps /\ MainIdle /\ NotifyOff
    /\ OuterIdle

SpecDetect == InitDetect /\ [][NextDetect]_vars

\* ------------------------------------------------ runs with --enable-email

\* lines 944-945: --enable-email sets ENABLE_EMAIL_NOTIFICATIONS
InitNotify ==
    /\ RunInit
    /\ DetectIdle
    /\ history_keep \in HistoryKeeps
    /\ MainIdle
    /\ enable_email \in BOOLEAN
    /\ notifier_calls = <<>>
    /\ OuterIdle

SpecNotify == InitNotify /\ [][Next]_vars

\* ------------------------------------------- --batch-users and --queue-batch

\* the handles a batch is made of, as typed or as stored in the queue
BatchArgs == {<<"a">>, <<"B">>, <<"@", "a">>, <<"@">>}

RECURSIVE ListsUpTo(_, _)
ListsUpTo(S, n) ==
    IF n = 0 THEN {<<>>}
    ELSE LET shorter == ListsUpTo(S, n - 1)
         IN shorter \cup {Append(l, x) : l \in {s \in shorter : Len(s) = n - 1}, x \in S}

BatchLists == ListsUpTo(BatchArgs, MaxBatch)

\* line 475: the sort key of an entry without "priority" or "queue_position"
QueueKeyDefault == 999

\* workflow_integration.py, lines 74-93 and 407: the priorities of the entries
\* it writes (mutual friends first, manual additions last)
Priorities == {1, 4}

\* an entry of monitoring_queue.json (workflow_integration.py, lines 97-104);
\* last_check and monitoring_started are kept as "has been set"
QueueEntry(username, priority, position, status) ==
    [username |-> username, priority |-> JInt(priority),
     queue_position |-> JInt(position), status |-> status,
     last_check |-> FALSE, monitoring_started |-> FALSE]

\* the queue files the workflow manager leaves: positions count from one,
\* priorities do not decrease, some entries were completed by earlier batches
QueueFiles ==
    {JsonFile([i \in 1..Len(names) |->
                  QueueEntry(names[i], IF i <= first THEN 1 ELSE 4, i,
                             IF i \in done THEN "completed" ELSE "queued")]) :
        names \in BatchLists \ {<<>>}, first \in 0..1, done \in {{}, {1}}}

\* line 475: the key of the sort
QueueKey(u) ==
    <<IF u.priority = Missing THEN QueueKeyDefault ELSE Val(u.priority),
      IF u.queue_position = Missing THEN QueueKeyDefault ELSE Val(u.queue_position)>>

KeyLess(k1, k2) == k1[1] < k2[1] \/ (k1[1] = k2[1] /\ k1[2] < k2[2])

RECURSIVE InsertSorted(_, _)
\* u goes behind every entry whose key is not greater: the sort is stable
InsertSorted(sorted, u) ==
    IF sorted = <<>> THEN <<u>>
    ELSE IF KeyLess(QueueKey(u), QueueKey(Head(sorted))) THEN <<u>> \o sorted
    ELSE <<Head(sorted)>> \o InsertSorted(Tail(sorted), u)

RECURSIVE SortQueue(_)
\* list.sort(key=...) of line 475
SortQueue(lst) ==
    IF lst = <<>> THEN <<>>
    ELSE InsertSorted(SortQueue(SubSeq(lst, 1, Len(lst) - 1)), lst[Len(lst)])

IsQueued(u) == u.status = "queued"

\* lst[:count] of line 477: a negative count is counted from the end
SliceFirst(lst, count) ==
    LET stop == IF count < 0 THEN Len(lst) + count ELSE count
    IN SubSeq(lst, 1, IF stop < 0 THEN 0 ELSE IF stop > Len(lst) THEN Len(lst) ELSE stop)

\* lines 459-481: the usernames of the first count queued entries
get_next_queued_users(count, file) ==
    IF Tag(file) # "json" THEN <<>>
    ELSE LET queued_users == SortQueue(SelectSeq(Val(file), IsQueued))
             first == SliceFirst(queued_users, count)
         IN [i \in 1..Len(first) |-> first[i].username]

\* lines 431-457: the first entry of that username gets the status; the
\* file is rewritten whether an entry matched or not
update_queue_status(file, username, status) ==
    IF Tag(file) # "json" THEN file
    ELSE LET queue == Val(file)
             hits == {i \in 1..Len(queue) : queue[i].username = username}
         IN IF hits = {} THEN file
            ELSE LET i == CHOOSE h \in hits : \A g \in hits : h <= g
                 IN JsonFile([queue EXCEPT ![i] =
                        [@ EXCEPT !.status = status, !.last_check = TRUE,
                                  !.monitoring_started = @ \/ status = "monitoring"]])

\* lines 483-507: batch_summary.json as setup_batch_monitoring writes it
\* (results in the order of insertion; finished_at as "has been set")
setup_batch_monitoring(usernames) ==
    JsonFile([users |-> usernames, total_users |-> Len(usernames),
              completed |-> 0, failed |-> 0, results |-> <<>>,
              finished_at |-> FALSE])

\* d[key] = value of a dict kept as the sequence of its items
DictSet(d, key, value) ==
    IF \E i \in 1..Len(d) : d[i].key = key
    THEN [i \in 1..Len(d) |-> IF d[i].key = key THEN [key |-> key, value |-> value] ELSE d[i]]
    ELSE Append(d, [key |-> key, value |-> value])

\* lines 509-537
update_batch_progress(file, username, success) ==
    IF Tag(file) # "json" THEN file
    ELSE LET batch_data == Val(file)
             completed == batch_data.completed + (IF success THEN 1 ELSE 0)
             failed == batch_data.failed + (IF success THEN 0 ELSE 1)
         IN JsonFile([batch_data EXCEPT
                !.completed = completed,
                !.failed = failed,
                !.results = DictSet(@, username, success),
                !.finished_at = @ \/ completed + failed >= batch_data.total_users])

Event(ev, user) == [ev |-> ev, user |-> user]

\* lines 917-919, 937-938: main was started with --batch-users (one handle
\* or more) or with --queue-batch N, with or without --update-queue
InitBatch ==
    /\ RunInit
    /\ DetectIdle
    /\ history_keep \in HistoryKeeps
    /\ MainIdle
    /\ NotifyOff
    /\ PicIdle
    /\ RestoreIdle
    /\ OverlapIdle
    /\ AuthIdle
    /\ ToolsIdle
    /\ batch_pc = "main"
    /\ batch_i = 0
    /\ batch_file = Absent
    /\ io_log = <<>>
    /\ workflow_mode = FALSE
    /\ \/ /\ mode = "batch_users"
          /\ users_to_process \in BatchLists \ {<<>>}
          /\ queue_count = 0
          /\ update_queue = FALSE
          /\ queue_file = Absent
       \/ /\ mode = "queue_batch"
          /\ users_to_process = <<>>
          /\ queue_count \in 1..MaxBatch
          /\ update_queue \in BOOLEAN
          /\ queue_file \in QueueFiles \cup {Absent}

runVars == <<pc, runs, target_user, run_result, tried, session_file, fileVars,
             localVars, detectVars, envVars, notifier_calls>>

\* lines 960-969 and 1016-1017: the handles of the batch and the summary file
BatchSetup ==
    /\ batch_pc = "main"
    /\ LET users == IF mode = "queue_batch"
                    THEN get_next_queued_users(queue_count, queue_file)
                    ELSE users_to_process
       IN /\ users_to_process' = users
          /\ IF mode = "queue_batch" /\ users = <<>>
             THEN batch_pc' = "exited" /\ UNCHANGED batch_file
             ELSE batch_pc' = "loop" /\ batch_file' = setup_batch_monitoring(users)
    /\ batch_i' = 1
    /\ UNCHANGED <<mode, queue_count, update_queue, workflow_mode, queue_file, io_log, runVars, notBatch>>

\* lines 972-974 and 1020-1022: user of the loop
LoopUser == NormalizeHandle(users_to_process[batch_i])

\* lines 973-974 and 1021-1022: a handle that is empty is passed over
BatchSkip ==
    /\ batch_pc = "loop"
    /\ batch_i <= Len(users_to_process)
    /\ LoopUser = <<>>
    /\ batch_i' = batch_i + 1
    /\ UNCHANGED <<batch_pc, mode, queue_count, update_queue, workflow_mode, users_to_process,
                   batch_file, queue_file, io_log, runVars, notBatch>>

\* lines 976-1008 and 1024-1048: one handle of the batch; success says that
\* fetch_enhanced_profile_data returned (it returns True or raises)
BatchRun ==
    /\ batch_pc = "loop"
    /\ batch_i <= Len(users_to_process)
    /\ LoopUser # <<>>
    /\ \E success \in BOOLEAN :
        LET user == LoopUser
            tell == mode = "queue_batch" /\ update_queue
            before == IF tell THEN <<Event("queue_status", user)>> ELSE <<>>
            after == IF tell THEN <<Event("queue_status", user)>> ELSE <<>>
            sleep == IF success /\ user # users_to_process[Len(users_to_process)]
                     THEN <<Event("sleep", user)>>
                     ELSE <<>>
        IN /\ queue_file' =
                IF tell
                THEN update_queue_status(update_queue_status(queue_file, user, "monitoring"),
                                         user, IF success THEN "completed" ELSE "failed")
                ELSE queue_file
           /\ batch_file' = update_batch_progress(batch_file, user, success)
           /\ io_log' = io_log \o before
                           \o <<Event("mkdir", user), Event("fetch", user)>>
                           \o after \o <<Event("progress", user)>> \o sleep
    /\ batch_i' = batch_i + 1
    /\ UNCHANGED <<batch_pc, mode, queue_count, update_queue, workflow_mode, users_to_process, runVars, notBatch>>

\* lines 1011-1012 and 1051-1052: sys.exit(0) after the loop
BatchExit ==
    /\ batch_pc = "loop"
    /\ batch_i > Len(users_to_process)
    /\ batch_pc' = "exited"
    /\ UNCHANGED <<mode, queue_count, update_queue, workflow_mode, users_to_process, batch_i,
                   batch_file, queue_file, io_log, runVars, notBatch>>

NextBatch == BatchSetup \/ BatchSkip \/ BatchRun \/ BatchExit

SpecBatch == InitBatch /\ [][NextBatch]_vars

\* --------------------------------------------------- the profile picture

\* what the CDN serves: the body of an image, in chunks of iter_content
Bodies == {<<1>>, <<1, 2>>, <<2, 2>>}

\* the URLs under which the CDN serves the picture of the handle
PicUrls == {"cdn1", "cdn2"}

\* what requests.get and the streaming of the body do
Downloads == {"ok", "request_error", "bad_status", "stream_error"}

\* save_profile_picture with a handler that reports success whatever was raised
save_profile_picture_Mut(download, body, cut, file) ==
    CASE download = "ok" -> [ok |-> TRUE, file |-> PicFile(body)]
      [] download = "stream_error" -> [ok |-> TRUE, file |-> PicFile(SubSeq(body, 1, cut))]
      [] OTHER -> [ok |-> TRUE, file |-> file]

\* lines 109-121: requests.get and raise_for_status come before the file is
\* opened; open(filepath, 'wb') empties the file and the chunks are written
\* into it one by one, cut of them before a failure in the stream; every
\* exception makes the function return False
save_profile_picture(download, body, cut, file) ==
    CASE download = "ok" -> [ok |-> TRUE, file |-> PicFile(body)]
      [] download = "stream_error" -> [ok |-> FALSE, file |-> PicFile(SubSeq(body, 1, cut))]
      [] OTHER -> [ok |-> FALSE, file |-> file]

\* the comparison of the tracker done on the URLs instead of the bytes
SamePicture_Mut(new_file, current_file, url, current_url) == url = current_url

\* the exact byte-for-byte comparison of the tracker
SamePicture(new_file, current_file, url, current_url) ==
    new_file.bytes = current_file.bytes

ArchiveSlot(kind, time, bytes) == [kind |-> kind, time |-> time, bytes |-> bytes]

\* the archive directory of a handle before its first check
InitPicture ==
    /\ RunInit
    /\ DetectIdle
    /\ history_keep \in HistoryKeeps
    /\ MainIdle
    /\ NotifyOff
    /\ BatchIdle
    /\ RestoreIdle
    /\ OverlapIdle
    /\ AuthIdle
    /\ ToolsIdle
    /\ pic_pc = "idle"
    /\ pic_checks = 0
    /\ pic_current = NoFile
    /\ pic_tmp = NoFile
    /\ pic_archive = <<>>
    /\ pic_served = [url |-> "", download |-> "ok", body |-> <<>>, current_url |-> ""]
    /\ pic_result = PicResult(FALSE, "none", FALSE)

\* check(currentUrl, archiveDir) of the picture change tracker: the image is
\* downloaded to a temporary path; without a current picture the new one is
\* archived ("initial"); otherwise the bytes are compared and on a mismatch
\* the old file is moved to a timestamped slot, the new one becomes current
\* and a second timestamped copy of it is written; a failed download reports
\* an error and touches neither the current picture nor the archive
PicCheck ==
    /\ pic_pc = "idle"
    /\ pic_checks < MaxChecks
    /\ \E url \in PicUrls, download \in Downloads, body \in Bodies :
       \E cut \in 0..(Len(body) - 1) :
        LET now == pic_checks + 1
            saved == save_profile_picture(download, body, cut, pic_tmp)
            same == SamePicture(saved.file, pic_current, url, pic_served.current_url)
            promoted == saved.ok /\ (~pic_current.exists \/ ~same)
        IN /\ pic_served' = [url |-> url, download |-> download, body |-> body,
                             current_url |-> IF promoted THEN url ELSE pic_served.current_url]
           /\ pic_tmp' = IF promoted \/ (saved.ok /\ same) THEN NoFile ELSE saved.file
           /\ pic_current' = IF promoted THEN saved.file ELSE pic_current
           /\ pic_archive' =
                CASE ~saved.ok -> pic_archive
                  [] ~pic_current.exists ->
                        Append(pic_archive, ArchiveSlot("new", now, saved.file.bytes))
                  [] same -> pic_archive
                  [] OTHER ->
                        pic_archive \o <<ArchiveSlot("old", now, pic_current.bytes),
                                         ArchiveSlot("new", now, saved.file.bytes)>>
           /\ pic_result' =
                CASE ~saved.ok -> PicResult(FALSE, "none", TRUE)
                  [] ~pic_current.exists -> PicResult(TRUE, "initial", FALSE)
                  [] same -> PicResult(FALSE, "none", FALSE)
                  [] OTHER -> PicResult(TRUE, "update", FALSE)
    /\ pic_checks' = pic_checks + 1
    /\ UNCHANGED <<pic_pc, runVars, notPic>>

NextPicture == PicCheck

SpecPicture == InitPicture /\ [][NextPicture]_vars

\* -------------------------------------------------- restore_all_users.py

\* lines 20-28: the script starts with an output directory nothing was
\* written to
InitRestore ==
    /\ RunInit
    /\ DetectIdle
    /\ history_keep \in HistoryKeeps
    /\ MainIdle
    /\ NotifyOff
    /\ BatchIdle
    /\ PicIdle
    /\ OverlapIdle
    /\ AuthIdle
    /\ ToolsIdle
    /\ restore_i = 1
    /\ other_friends = NoFriendsFiles

\* the followers and followings files of the handle that ran last are put
\* aside, those of user are the ones its run finds
FriendsFilesFor(user) ==
    LET kept == IF target_user \in DefaultUserSet
                THEN [other_friends EXCEPT ![target_user] =
                         [followers |-> followers_file, followings |-> followings_file]]
                ELSE other_friends
    IN /\ other_friends' = kept
       /\ followers_file' = kept[user].followers
       /\ followings_file' = kept[user].followings

\* lines 30-41: monitor.py --target-user user --output-dir monitoring_data is
\* started for the next handle of DEFAULT_USERS, once the run before it has
\* ended: every handle gets the same output directory
RestoreRun ==
    /\ restore_i \in 1..Len(DEFAULT_USERS)
    /\ StartRunFor(DEFAULT_USERS[restore_i])
    /\ FriendsFilesFor(DEFAULT_USERS[restore_i])
    /\ restore_i' = restore_i + 1
    /\ UNCHANGED notRestore

NextRestore ==
    \/ RestoreRun
    \/ TryAuthenticated
    \/ TryAnonymous
    \/ Fallback
    \/ Detect
    \/ Friends
    \/ Persist

SpecRestore == InitRestore /\ [][NextRestore]_vars

\* ------------------------------------- two runs on one handle directory

\* the process is over: only how it ended, for whom and when is kept
EndProc(r, how) == [NewProc(how) EXCEPT !.user = r.user, !.now = r.now]

\* the second argument of each write_json_atomic call (lines 681, 682, 697,
\* 711), from the locals of the process
ProcData(r, a) ==
    LET quick_stats == QuickStats(r.current_data, r.user, r.now)
    IN CASE a = "stats" -> PyDict(quick_stats)
         [] a = "summary" -> PyDict(Summary(r.current_data, r.changes))
         [] a = "history" -> UpdateHistory(r.history_data, HistoryEntry(quick_stats, r.now),
                                           history_keep, r.user, r.now)
         [] a = "changes" -> SliceLast(Append(r.log, ChangeSet(r.changes)), ChangesLogKeep)

\* what follows the call for artifact a (lines 681-711, 747)
ProcAfter(r, a) ==
    CASE a = "stats" -> [r EXCEPT !.pc = "open", !.art = "summary"]
      [] a = "summary" -> [r EXCEPT !.pc = "open", !.art = "history"]
      [] a = "history" -> IF r.changes.has_changes
                          THEN [r EXCEPT !.pc = "open", !.art = "changes"]
                          ELSE EndProc(r, "done")
      [] a = "changes" -> EndProc(r, "done")

\* process q has the file of artifact a open, and the file is at where
HasOpen(q, a, where) ==
    /\ procs[q].pc = "dump"
    /\ procs[q].art = a
    /\ procs[q].fd = where

\* two processes are about to run for the same handle in a fresh directory
InitOverlap ==
    /\ RunInit
    /\ DetectIdle
    /\ history_keep \in HistoryKeeps
    /\ MainIdle
    /\ NotifyOff
    /\ BatchIdle
    /\ PicIdle
    /\ RestoreIdle
    /\ AuthIdle
    /\ ToolsIdle
    /\ procs = [p \in Procs |-> NewProc("start")]

\* lines 541-604 of one process, for the run in which both strategies fail:
\* it loads what is in the directory, takes the placeholder as its snapshot
\* and detects the changes
OverlapStart ==
    \E p \in Procs, user \in Users :
        /\ procs[p].pc = "start"
        /\ LET now == runs + 1
               loaded == LoadHistorical(summary_file)
               cd == CurrentData(FallbackData(user), user, now)
               ch == detect_changes(cd, loaded, now)
           IN procs' = [procs EXCEPT ![p] =
                  IF ch.raised
                  THEN EndProc([@ EXCEPT !.user = user, !.now = now], "failed")
                  ELSE [@ EXCEPT !.pc = "open", !.user = user, !.now = now,
                                 !.historical_summary = loaded,
                                 !.history_data = LoadHistory(history_file, user),
                                 !.current_data = cd,
                                 !.changes = ch]]
        /\ runs' = runs + 1
        /\ UNCHANGED <<pc, target_user, run_result, tried, session_file, fileVars,
                       localVars, detectVars, envVars, notifier_calls, notOverlap>>

\* line 68 of one call (for the changes log, after the read of lines 701-706):
\* open(tmp, "w") makes the ".tmp" sibling or empties the one that is there
OverlapOpen ==
    \E p \in Procs :
        /\ procs[p].pc = "open"
        /\ tmp_files' = [tmp_files EXCEPT ![procs[p].art] = Partial]
        /\ procs' = [procs EXCEPT ![p] =
               [@ EXCEPT !.pc = "dump", !.fd = "tmp", !.clobbered = FALSE,
                         !.log = IF procs[p].art = "changes"
                                 THEN LoadLog(changes_file)
                                 ELSE @]]
        /\ UNCHANGED <<pc, runs, target_user, run_result, tried, session_file, fileVars,
                       localVars, detectVars, cfgVars, argv_user, handle,
                       notifier_calls, notOverlap>>

\* lines 69-70 of one call: the text goes into the file the process has open,
\* wherever that file is by now; when the other process wrote into the same
\* file meanwhile, the outcome is this text or a mix that is no JSON document
OverlapDump ==
    \E p \in Procs, garbled \in BOOLEAN :
        LET r == procs[p]
            a == r.art
            text == IF garbled THEN Partial ELSE JsonFile(ProcData(r, a))
        IN /\ r.pc = "dump"
           /\ garbled => r.clobbered
           /\ tmp_files' = IF r.fd = "tmp" THEN [tmp_files EXCEPT ![a] = text] ELSE tmp_files
           /\ IF r.fd = "dest"
              THEN WriteDest(a, text)
              ELSE UNCHANGED <<stats_file, summary_file, history_file, changes_file>>
           /\ procs' = [q \in Procs |->
                  IF q = p THEN [r EXCEPT !.pc = "replace", !.fd = "none"]
                  ELSE IF r.fd # "gone" /\ HasOpen(q, a, r.fd)
                       THEN [procs[q] EXCEPT !.clobbered = TRUE]
                       ELSE procs[q]]
           /\ UNCHANGED <<pc, runs, target_user, run_result, tried, session_file,
                          followers_file, followings_file, friend_changes_file,
                          localVars, detectVars, cfgVars, argv_user, handle,
                          notifier_calls, notOverlap>>

\* line 71 of one call: tmp.replace(path) raises FileNotFoundError when the
\* sibling is gone, and the exception leaves the run; otherwise whatever is
\* under the ".tmp" name becomes the artifact
OverlapReplace ==
    \E p \in Procs :
        LET r == procs[p]
            a == r.art
        IN /\ r.pc = "replace"
           /\ IF tmp_files[a] = Absent
              THEN /\ procs' = [procs EXCEPT ![p] = EndProc(r, "failed")]
                   /\ UNCHANGED <<tmp_files, stats_file, summary_file, history_file,
                                  changes_file>>
              ELSE /\ WriteDest(a, tmp_files[a])
                   /\ tmp_files' = [tmp_files EXCEPT ![a] = Absent]
                   /\ procs' = [q \in Procs |->
                          IF q = p THEN ProcAfter(r, a)
                          ELSE IF HasOpen(q, a, "tmp") THEN [procs[q] EXCEPT !.fd = "dest"]
                          ELSE IF HasOpen(q, a, "dest") THEN [procs[q] EXCEPT !.fd = "gone"]
                          ELSE procs[q]]
           /\ UNCHANGED <<pc, runs, target_user, run_result, tried, session_file,
                          followers_file, followings_file, friend_changes_file,
                          localVars, detectVars, cfgVars, argv_user, handle,
                          notifier_calls, notOverlap>>

NextOverlap == OverlapStart \/ OverlapOpen \/ OverlapDump \/ OverlapReplace

SpecOverlap == InitOverlap /\ [][NextOverlap]_vars

\* ------------------------------------------ the authenticated strategy alone

\* every environment and upstream answer the strategy can meet
InitAuth ==
    /\ RunInit
    /\ DetectIdle
    /\ history_keep \in HistoryKeeps
    /\ MainIdle
    /\ NotifyOff
    /\ BatchIdle
    /\ PicIdle
    /\ RestoreIdle
    /\ OverlapIdle
    /\ ToolsIdle
    /\ auth_pc = "ready"
    /\ \E creds \in BOOLEAN, ci \in BOOLEAN, session \in BOOLEAN, login_ok \in BOOLEAN,
          outcome \in Outcomes, user \in Users :
        \E profile \in Profiles(user) :
            auth_env = AuthEnv(creds, ci, session, login_ok, outcome, profile)
    /\ auth_out = AuthOut(JNull, FALSE, FALSE)

\* lines 342-391: one call of try_authenticated_method
AuthCall ==
    /\ auth_pc = "ready"
    /\ LET e == auth_env
           r == try_authenticated_method(e.profile.username, e.creds, e.ci, e.session,
                                         e.login_ok, e.outcome, e.profile)
       IN auth_out' = AuthOut(r.result, LoggedIn(e.creds, e.session), r.session)
    /\ auth_pc' = "done"
    /\ UNCHANGED <<auth_env, runVars, notAuth>>

NextAuth == AuthCall

SpecAuth == InitAuth /\ [][NextAuth]_vars

\* ------------------------------------------------- runs with --update-queue

\* lines 937-938, 959, 1054-1063: main was started with --queue-batch N or
\* with --target-user, with or without --workflow-mode and --update-queue,
\* on a queue the workflow manager has written
InitQueue ==
    /\ RunInit
    /\ DetectIdle
    /\ history_keep \in HistoryKeeps
    /\ handle = <<>>
    /\ NotifyOff
    /\ PicIdle
    /\ RestoreIdle
    /\ OverlapIdle
    /\ AuthIdle
    /\ ToolsIdle
    /\ batch_pc = "main"
    /\ batch_i = 0
    /\ batch_file = Absent
    /\ io_log = <<>>
    /\ users_to_process = <<>>
    /\ update_queue \in BOOLEAN
    /\ queue_file \in QueueFiles \cup {Absent}
    /\ \/ /\ mode = "queue_batch"
          /\ queue_count \in 1..MaxBatch
          /\ workflow_mode = FALSE
          /\ argv_user = <<>>
       \/ /\ mode = "single"
          /\ queue_count = 0
          /\ workflow_mode \in BOOLEAN
          /\ argv_user \in BatchArgs

\* lines 976-990: KeyboardInterrupt while fetch_enhanced_profile_data runs
\* for a handle of the batch; "except Exception" (line 1005) does not catch
\* it and the process ends
BatchInterrupt ==
    /\ batch_pc = "loop"
    /\ batch_i <= Len(users_to_process)
    /\ LoopUser # <<>>
    /\ LET user == LoopUser
           tell == mode = "queue_batch" /\ update_queue
       IN /\ queue_file' = IF tell
                           THEN update_queue_status(queue_file, user, "monitoring")
                           ELSE queue_file
          /\ io_log' = io_log
                          \o (IF tell THEN <<Event("queue_status", user)>> ELSE <<>>)
                          \o <<Event("mkdir", user), Event("fetch", user)>>
    /\ batch_pc' = "exited"
    /\ UNCHANGED <<mode, queue_count, update_queue, workflow_mode, users_to_process,
                   batch_i, batch_file, runVars, notBatch>>

\* lines 1099, 1109, 1114: the status that ends a single run
FinalStatus(outcome) ==
    CASE outcome = "returned" -> "completed"
      [] outcome = "interrupted" -> "cancelled"
      [] outcome = "raised" -> "failed"

\* lines 1054-1115: the single-user mode; outcome says how
\* fetch_enhanced_profile_data ended
SingleRun ==
    /\ batch_pc = "main"
    /\ mode = "single"
    /\ LET user == NormalizeHandle(argv_user)
           tell == workflow_mode /\ update_queue
       IN /\ handle' = user
          /\ IF user = <<>>
             THEN UNCHANGED <<queue_file, io_log>>
             ELSE \E outcome \in {"returned", "raised", "interrupted"} :
                    /\ queue_file' =
                         IF tell
                         THEN update_queue_status(
                                  update_queue_status(queue_file, user, "monitoring"),
                                  user, FinalStatus(outcome))
                         ELSE queue_file
                    /\ io_log' = io_log
                          \o (IF tell THEN <<Event("queue_status", user)>> ELSE <<>>)
                          \o <<Event("fetch", user)>>
                          \o (IF tell THEN <<Event("queue_status", user)>> ELSE <<>>)
    /\ batch_pc' = "exited"
    /\ UNCHANGED <<mode, queue_count, update_queue, workflow_mode, users_to_process,
                   batch_i, batch_file, pc, runs, target_user, run_result, tried,
                   session_file, fileVars, localVars, detectVars, cfgVars, tmp_files,
                   argv_user, notifier_calls, notBatch>>

NextQueue ==
    \/ BatchSetup
    \/ BatchSkip
    \/ BatchRun
    \/ BatchExit
    \/ BatchInterrupt
    \/ SingleRun

SpecQueue == InitQueue /\ [][NextQueue]_vars

\* ------------------------------------------ the selection from the queue

\* entries as any revision of the queue may hold them: the order in the
\* file need not be the order of priority and position
SelectEntries ==
    {QueueEntry(username, priority, position, status) :
        username \in {<<"a">>, <<"B">>}, priority \in Priorities,
        position \in 1..MaxBatch, status \in {"queued", "completed"}}

SelectFiles == {JsonFile(queue) : queue \in ListsUpTo(SelectEntries, MaxBatch) \ {<<>>}}

\* line 919: --queue-batch takes any int; main goes on with it unless it
\* is zero (line 960)
SelectCounts == (-1..MaxBatch) \ {0}

\* main was started with --queue-batch N on some queue file
InitSelect ==
    /\ RunInit
    /\ DetectIdle
    /\ history_keep \in HistoryKeeps
    /\ MainIdle
    /\ NotifyOff
    /\ PicIdle
    /\ RestoreIdle
    /\ OverlapIdle
    /\ AuthIdle
    /\ ToolsIdle
    /\ batch_pc = "main"
    /\ batch_i = 0
    /\ batch_file = Absent
    /\ io_log = <<>>
    /\ workflow_mode = FALSE
    /\ mode = "queue_batch"
    /\ users_to_process = <<>>
    /\ update_queue = FALSE
    /\ queue_count \in SelectCounts
    /\ queue_file \in SelectFiles \cup {Absent}

NextSelect == BatchSetup

SpecSelect == InitSelect /\ [][NextSelect]_vars

\* ---------------------------------- workflow_integration.py: --add-users

\* monitoring_queue.json as the workflow manager writes it: the entries and
\* their stored number
QueueData(queue, total_users) == [queue |-> queue, total_users |-> total_users]

\* lines 398-412: the entries of the usernames that are not in
\* existing_users; existing_users is computed once, before the loop
RECURSIVE NewUsers(_, _, _)
NewUsers(usernames, existing_users, queued) ==
    IF usernames = <<>> THEN <<>>
    ELSE LET new_users == NewUsers(SubSeq(usernames, 1, Len(usernames) - 1),
                                  existing_users, queued)
             username == usernames[Len(usernames)]
         IN IF username \notin existing_users
            THEN Append(new_users,
                        QueueEntry(username, 4, queued + Len(new_users) + 1, "queued"))
            ELSE new_users

\* lines 378-432: a queue file that does not parse is taken as an empty
\* queue; the file is written only if there is a new entry
add_users_to_queue(file, usernames) ==
    LET queue_data == IF Tag(file) = "json" THEN Val(file) ELSE QueueData(<<>>, 0)
        queue == queue_data.queue
        existing_users == {queue[i].username : i \in 1..Len(queue)}
        new_users == NewUsers(usernames, existing_users, Len(queue))
    IN IF new_users # <<>>
       THEN JsonFile(QueueData(queue \o new_users, Len(queue) + Len(new_users)))
       ELSE file

\* line 464: --add-users takes one username or more
AddNames == {<<"a">>, <<"B">>, <<"c">>}
AddLists == ListsUpTo(AddNames, MaxAdd) \ {<<>>}

\* the workflow manager is used on a directory without a queue file
InitAddUsers ==
    /\ RunInit
    /\ DetectIdle
    /\ history_keep \in HistoryKeeps
    /\ MainIdle
    /\ NotifyOff
    /\ BatchIdle
    /\ PicIdle
    /\ RestoreIdle
    /\ OverlapIdle
    /\ AuthIdle
    /\ SrvIdle
    /\ wf_pc = "ready"
    /\ wf_args = NoWfArgs
    /\ wf_friends = Absent
    /\ wf_file = Absent
    /\ wf_calls = 0

\* lines 520-522: one run of workflow_integration.py --add-users
AddUsers ==
    /\ wf_pc = "ready"
    /\ wf_calls < MaxCalls
    /\ \E usernames \in AddLists :
        /\ wf_args' = WfArgs("add", usernames, {}, 0, FALSE)
        /\ wf_file' = add_users_to_queue(wf_file, usernames)
    /\ wf_calls' = wf_calls + 1
    /\ UNCHANGED <<wf_pc, wf_friends, runVars, notWf>>

NextAddUsers == AddUsers

SpecAddUsers == InitAddUsers /\ [][NextAddUsers]_vars

\* -------------------------------- workflow_integration.py: --create-queue

Categories == {"mutual_friends", "followers_only", "followings_only"}

\* a list of the friends analysis: n usernames of one category
FriendList(category, n) == [i \in 1..n |-> <<category, i>>]

\* <source_user>_friends_analysis.json: absent, unparseable, or the three
\* lists that create_monitoring_queue reads
FriendsFiles ==
    {Absent, Corrupt} \cup
    {JsonFile([c \in Categories |-> FriendList(c, n[c])]) :
        n \in [Categories -> 0..MaxFriends]}

\* the slots that the first version of the count leaves free
RemainingSlots_Mut(max_users, users_to_monitor) == max_users

\* lines 79 and 88
RemainingSlots(max_users, users_to_monitor) == max_users - Len(users_to_monitor)

\* lines 97-105: position, status and the rest of the metadata
WithMetadata(users_to_monitor) ==
    [i \in 1..Len(users_to_monitor) |->
        QueueEntry(users_to_monitor[i].username, users_to_monitor[i].priority, i, "queued")]

Prioritized(usernames, priority) ==
    [i \in 1..Len(usernames) |-> [username |-> usernames[i], priority |-> priority]]

\* lines 44-121: the queue file after the call; without friends data
\* nothing is written
create_monitoring_queue(file, friends, categories, max_users, priority_mutual) ==
    IF Tag(friends) # "json" THEN file
    ELSE LET friends_data == Val(friends)
             mutual ==
                IF priority_mutual /\ "mutual_friends" \in categories
                THEN Prioritized(SliceFirst(friends_data["mutual_friends"], max_users \div 2), 1)
                ELSE <<>>
             slots1 == RemainingSlots(max_users, mutual)
             followers ==
                IF "followers_only" \in categories /\ slots1 > 0
                THEN Prioritized(SliceFirst(friends_data["followers_only"], slots1 \div 2), 2)
                ELSE <<>>
             slots2 == RemainingSlots(max_users, mutual \o followers)
             followings ==
                IF "followings_only" \in categories /\ slots2 > 0
                THEN Prioritized(SliceFirst(friends_data["followings_only"], slots2), 3)
                ELSE <<>>
             users_to_monitor == WithMetadata(mutual \o followers \o followings)
         IN JsonFile(QueueData(users_to_monitor, Len(users_to_monitor)))

\* line 471: --max-users takes any int
MaxUsersArgs == -1..MaxUsers

\* lines 524-535: workflow_integration.py --create-queue was started on some
\* friends analysis, with some categories and some --max-users
InitCreateQueue ==
    /\ RunInit
    /\ DetectIdle
    /\ history_keep \in HistoryKeeps
    /\ MainIdle
    /\ NotifyOff
    /\ BatchIdle
    /\ PicIdle
    /\ RestoreIdle
    /\ OverlapIdle
    /\ AuthIdle
    /\ SrvIdle
    /\ wf_pc = "ready"
    /\ \E categories \in SUBSET Categories, max_users \in MaxUsersArgs, priority_mutual \in BOOLEAN :
          wf_args = WfArgs("create", <<>>, categories, max_users, priority_mutual)
    /\ wf_friends \in FriendsFiles
    /\ wf_file = Absent
    /\ wf_calls = 0

\* lines 529-534: the call
CreateQueue ==
    /\ wf_pc = "ready"
    /\ wf_args.op = "create"
    /\ wf_file' = create_monitoring_queue(wf_file, wf_friends, wf_args.categories,
                                          wf_args.max_users, wf_args.priority_mutual)
    /\ wf_pc' = "done"
    /\ wf_calls' = wf_calls + 1
    /\ UNCHANGED <<wf_args, wf_friends, runVars, notWf>>

NextCreateQueue == CreateQueue

SpecCreateQueue == InitCreateQueue /\ [][NextCreateQueue]_vars

\* ------------------------------------------------ changes_log.json over runs

\* the change sets that n earlier runs appended, the oldest first
EarlierLog(n) == [i \in 1..n |-> ChangeSet(FirstTimeChanges(i - n - 1))]

\* the output directory of a handle whose changes log holds n entries
LoggedFiles(n) ==
    /\ summary_file = JsonFile(PyDict(Summary(EarlierSnapshot(0), NoChanges(0))))
    /\ stats_file = JsonFile(PyDict(QuickStats(EarlierSnapshot(0), SeenUser, 0)))
    /\ history_file = JsonFile(EarlierLedger)
    /\ changes_file = JsonFile(EarlierLog(n))

\* runs on a fresh directory and on directories whose changes log is full or
\* one entry short of it
InitChanges ==
    /\ ProcessInit
    /\ FreshFiles \/ LoggedFiles(ChangesLogKeep - 1) \/ LoggedFiles(ChangesLogKeep)
    /\ DetectIdle
    /\ history_keep \in HistoryKeeps
    /\ MainIdle
    /\ NotifyOff
    /\ OuterIdle

SpecChanges == InitChanges /\ [][Next]_vars

\* ------------------------------------------- config_server.py: /api/config

\* lines 17-41, for the keys followed here
DEFAULT_CONFIG ==
    [k \in CfgKeys |->
        CASE k = "smtpPassword" -> JStr("")
          [] k = "smtpHost" -> JStr("")
          [] k = "enableEmailNotifications" -> JBool(FALSE)
          [] OTHER -> Missing]

\* line 118: what stands for a stored password
Mask == "***"

\* the values a stored file or a request may give to a key
CfgValues(k) ==
    CASE k = "smtpPassword" -> {Missing, JStr(""), JStr("s3cret"), JStr(Mask)}
      [] k = "smtpHost" -> {Missing, JStr(""), JStr("h")}
      [] k = "enableEmailNotifications" -> {Missing, JBool(FALSE), JBool(TRUE)}
      [] OTHER -> {Missing, JStr("dark")}

Configs ==
    {c \in [CfgKeys -> UNION {CfgValues(k) : k \in CfgKeys}] :
        \A k \in CfgKeys : c[k] \in CfgValues(k)}

\* lines 88-99: the saved keys over the defaults; the defaults alone when
\* the file is absent or does not load
load_config(file) ==
    IF Tag(file) = "json"
    THEN [k \in CfgKeys |-> IF Val(file)[k] # Missing THEN Val(file)[k] ELSE DEFAULT_CONFIG[k]]
    ELSE DEFAULT_CONFIG

\* the password sent as it is stored
MaskPassword_Mut(value) == value

\* line 118
MaskPassword(value) == JStr(IF Truthy(value) THEN Mask ELSE "")

\* lines 111-123
handle_get_config(file) ==
    LET config == load_config(file)
        safe_config == [config EXCEPT !["smtpPassword"] =
                            IF @ # Missing THEN MaskPassword(@) ELSE @]
    IN Response(200, TRUE, safe_config)

\* every key of the request is taken
AllowedKey_Mut(key) == TRUE

\* line 137
AllowedKey(key) == key \in KnownKeys

\* lines 136-138: the stored configuration with the provided known keys
UpdatedConfig(current_config, new_config) ==
    [k \in CfgKeys |-> IF new_config[k] # Missing /\ AllowedKey(k)
                       THEN new_config[k]
                       ELSE current_config[k]]

\* lines 125-164: the file and the response after a POST; a body that is
\* no JSON gives 400, a JSON body that is no object raises at line 136 and
\* gives 500
handle_update_config(file, request) ==
    CASE request.kind = "invalid" ->
            [file |-> file, response |-> Response(400, FALSE, EmptyCfg)]
      [] request.kind = "not_object" ->
            [file |-> file, response |-> Response(500, FALSE, EmptyCfg)]
      [] OTHER ->
            [file |-> JsonFile(UpdatedConfig(load_config(file), request.body)),
             response |-> Response(200, TRUE, EmptyCfg)]

\* the server was started next to some instagram_monitor_config.json
InitServer ==
    /\ RunInit
    /\ DetectIdle
    /\ history_keep \in HistoryKeeps
    /\ MainIdle
    /\ NotifyOff
    /\ BatchIdle
    /\ PicIdle
    /\ RestoreIdle
    /\ OverlapIdle
    /\ AuthIdle
    /\ WfIdle
    /\ srv_pc = "serving"
    /\ \/ srv_file \in {Absent, Corrupt}
       \/ \E c \in Configs : srv_file = JsonFile(c)
    /\ srv_request = NoRequest
    /\ srv_response = NoResponse

\* lines 44-49: GET /api/config
GetConfig ==
    /\ srv_pc = "serving"
    /\ srv_request' = Request("GET", "none", EmptyCfg)
    /\ srv_response' = handle_get_config(srv_file)
    /\ UNCHANGED <<srv_pc, srv_file, runVars, notSrv>>

\* lines 57-61: POST /api/config with some body
PostConfig ==
    /\ srv_pc = "serving"
    /\ \E kind \in {"json", "invalid", "not_object"} :
       \E body \in (IF kind = "json" THEN Configs ELSE {EmptyCfg}) :
          LET request == Request("POST", kind, body)
              served == handle_update_config(srv_file, request)
          IN /\ srv_request' = request
             /\ srv_file' = served.file
             /\ srv_response' = served.response
    /\ UNCHANGED <<srv_pc, runVars, notSrv>>

NextServer == GetConfig \/ PostConfig

SpecServer == InitServer /\ [][NextServer]_vars

\* ----------------------------------------------------------------- claims

StrategyOrder == <<"authenticated", "anonymous", "fallback">>

\* C1: the strategies of a run are attempted in the order authenticated,
\* anonymous, fallback placeholder, each only after all earlier ones produced
\* nothing, and nothing is attempted after one produced a snapshot.
C1_StrategiesInPriorityOrder ==
    /\ Len(tried) <= Len(StrategyOrder)
    /\ \A i \in 1..Len(tried) :
        /\ tried[i].strategy = StrategyOrder[i]
        /\ i < Len(tried) => ~tried[i].produced

C1_Witness ==
    /\ pc = "detect"
    /\ Len(tried) = 2
    /\ ~tried[1].produced
    /\ tried[2].produced

AcquiredMethods == {JStr("authenticated_api"), JStr("anonymous_api"), JStr("fallback")}

\* C2: no failure of a strategy leaves the acquisition step: a failed attempt
\* yields no result, the run goes on to the next operand, and once acquisition
\* is over a snapshot is there.
C2_AcquisitionTotal ==
    /\ run_result # "raised_in_acquire"
    /\ \A i \in 1..Len(tried) : tried[i].outcome # "ok" => ~tried[i].produced
    /\ pc \in {"auth", "anon", "fallback"} =>
           ENABLED (TryAuthenticated \/ TryAnonymous \/ Fallback)
    /\ pc \in {"detect", "friends", "persist"} =>
           /\ Tag(profile_data) = "dict"
           /\ Val(profile_data)["method"] \in AcquiredMethods

C2_Witness ==
    /\ pc = "detect"
    /\ Len(tried) = 3
    /\ tried[1].outcome = "network_error"
    /\ tried[2].outcome = "not_found"
    /\ Val(profile_data)["method"] = JStr("fallback")

Complete(d) ==
    /\ d["method"] \in {JStr("authenticated_api"), JStr("anonymous_api")}
    /\ d["error"] = Missing

Degraded(d) ==
    /\ d["method"] = JStr("fallback")
    /\ d["followers"] = JInt(0)
    /\ d["following"] = JInt(0)
    /\ d["posts"] = JInt(0)
    /\ d["is_private"] = JBool(TRUE)
    /\ d["error"] # Missing

CompleteOrDegraded(d) == Complete(d) \/ Degraded(d)

\* C3: the snapshot of the run in progress and the one persisted in the
\* summary are complete (a real strategy's tag, no error) or degraded
\* (fallback, zero counts, private, error set).
C3_CompleteOrDegraded ==
    /\ pc \in {"friends", "persist"} => CompleteOrDegraded(current_data)
    /\ Tag(summary_file) = "json" => CompleteOrDegraded(Val(Val(summary_file)))

C3_Witness ==
    /\ runs = 2
    /\ pc = "idle"
    /\ Tag(summary_file) = "json"
    /\ Degraded(Val(Val(summary_file)))
    /\ Len(Val(history_file).entries) = 2
    /\ Val(history_file).entries[1]["method"] = JStr("authenticated_api")

Consistent(cs) == cs.has_changes <=> Len(cs.changes_detected) > 0

\* C4: in the change set of the run in progress (after detection and after
\* the friends merge), in the one embedded in the summary and in every entry
\* of the changes log, has_changes is true exactly when there are descriptors.
C4_HasChangesIffEntries ==
    /\ pc \in {"friends", "persist"} => Consistent(changes)
    /\ Tag(summary_file) = "json" => Consistent(Val(Val(Val(summary_file))["changes"]))
    /\ \A i \in 1..Len(LoadLog(changes_file)) : Consistent(LoadLog(changes_file)[i])

C4_Witness ==
    \E i \in 1..Len(LoadLog(changes_file)) :
        LET cs == LoadLog(changes_file)[i]
        IN /\ cs.has_changes
           /\ cs.changes_detected[1].text = "Lost followers"
           /\ Val(Val(Val(summary_file))["changes"]) = cs

\* the previous summary is a snapshot: a dict whose comparable fields have
\* their types
IsSnapshot(v) ==
    /\ Tag(v) = "dict"
    /\ \A f \in CountFields : Tag(Val(v)[f]) = "int"
    /\ \A f \in TextFields : Tag(Val(v)[f]) = "str"
    /\ Tag(Val(v)["is_private"]) = "bool"

DetectDone == d_pc = "done"
Previous == Val(d_historical)
Texts == [i \in 1..Len(d_changes.changes_detected) |-> d_changes.changes_detected[i].text]

\* C5: with no monitoring_summary.json, detect_changes returns has_changes
\* and the first-time descriptor alone, whatever the current snapshot is.
C5_FirstTimeSingleEntry ==
    (DetectDone /\ d_file = Absent) =>
        /\ ~d_changes.raised
        /\ d_changes.has_changes
        /\ Texts = <<FirstTimeText>>

C5_Witness ==
    /\ DetectDone
    /\ d_file = Absent
    /\ d_current["followers"] = JInt(2 * CountScale)
    /\ d_current["bio"] = JStr("bio")
    /\ d_changes.has_changes

\* C6: when the previous and the current snapshot agree on followers,
\* following, posts, bio, display name and privacy flag, detect_changes
\* returns has_changes = false and no descriptor.
C6_EqualFieldsNoChanges ==
    (/\ DetectDone
     /\ IsSnapshot(d_historical)
     /\ \A f \in ComparableFields : d_current[f] = Previous[f]) =>
        /\ ~d_changes.raised
        /\ ~d_changes.has_changes
        /\ d_changes.changes_detected = <<>>

C6_Witness ==
    /\ DetectDone
    /\ IsSnapshot(d_historical)
    /\ \A f \in ComparableFields : d_current[f] = Previous[f]
    /\ d_current["followers"] = JInt(2 * CountScale)
    /\ d_current["bio"] = JStr("bio")
    /\ ~d_changes.has_changes

CountLabel == [followers |-> "Followers", following |-> "Following", posts |-> "Posts"]
Positions(label) == {i \in 1..Len(d_changes.changes_detected) : Texts[i] = label}

\* C7: for each of followers, following and posts, a descriptor is emitted
\* exactly when the two values differ (by 1 or more), and it carries the old
\* value, the new value and the delta new - old with its sign.
C7_SignedDelta ==
    (DetectDone /\ IsSnapshot(d_historical)) =>
        /\ ~d_changes.raised
        /\ \A f \in CountFields :
            LET old == Val(Previous[f])
                new == Val(d_current[f])
            IN IF old = new THEN Positions(CountLabel[f]) = {}
               ELSE /\ Cardinality(Positions(CountLabel[f])) = 1
                    /\ \A i \in Positions(CountLabel[f]) :
                        LET nums == d_changes.changes_detected[i].nums
                        IN /\ Len(nums) = 3
                           /\ FormattedValue(nums[1]) = old
                           /\ FormattedValue(nums[2]) = new
                           /\ FormattedValue(nums[3]) = new - old
                           /\ (nums[3].sign = "+") <=> (new > old)
                           /\ (nums[3].sign = "-") <=> (new < old)

C7_Witness ==
    /\ DetectDone
    /\ IsSnapshot(d_historical)
    /\ Previous["followers"] = JInt(2 * CountScale)
    /\ d_current["followers"] = JInt(CountScale)
    /\ Previous["posts"] = JInt(2)
    /\ d_current["posts"] = JInt(3)
    /\ Len(d_changes.changes_detected) >= 2

PrivacyTexts == {"Account is now private", "Account is now public"}

\* C8: when the previous and the current snapshot differ in is_private, a
\* descriptor of the privacy transition is emitted and has_changes is true,
\* even if no other field changed (the case stated here).
C8_PrivacyTransitionReported ==
    (/\ DetectDone
     /\ IsSnapshot(d_historical)
     /\ d_current["is_private"] # Previous["is_private"]
     /\ \A f \in ComparableFields \ {"is_private"} : d_current[f] = Previous[f]) =>
        /\ d_changes.has_changes
        /\ \E i \in 1..Len(Texts) : Texts[i] \in PrivacyTexts

FixedOrder ==
    <<{"Followers"}, {"Following"}, {"Posts"}, {"Bio changed"},
      {"Display name changed"}, PrivacyTexts>>
Rank(text) == CHOOSE k \in 1..Len(FixedOrder) : text \in FixedOrder[k]

\* C9: the descriptors of a comparison come in the order followers,
\* following, posts, biography, display name, privacy flag, whichever of the
\* fields changed.
C9_DescriptorOrder ==
    (DetectDone /\ ~d_changes.raised /\ Truthy(d_historical)) =>
        /\ \A i \in 1..Len(Texts) : \E k \in 1..Len(FixedOrder) : Texts[i] \in FixedOrder[k]
        /\ \A i, j \in 1..Len(Texts) : i < j => Rank(Texts[i]) < Rank(Texts[j])

C9_Witness ==
    /\ DetectDone
    /\ IsSnapshot(d_historical)
    /\ Texts = <<"Followers", "Following", "Posts", "Bio changed", "Display name changed">>

\* the file holds a snapshot as a run writes it
FileIsSnapshot == Tag(d_file) = "json" /\ IsSnapshot(Val(d_file))

\* C10: a previous summary that is missing, unreadable or malformed gives
\* the result of a first run: the first-time descriptor alone, and no error.
C10_MalformedIsFirstTime ==
    (DetectDone /\ ~FileIsSnapshot) => d_changes = FirstTimeChanges(1)

\* the ledger as the last finished run left it
Ledger == LoadHistory(history_file, target_user).entries
RunReturned == pc = "idle" /\ run_result = "returned_true"

\* C11: after any number of runs with retention count N (N = 0 and a ledger
\* that already holds more than N entries included), the persisted ledger
\* holds at most N entries.
C11_LedgerAtMostN ==
    RunReturned => Len(Ledger) <= history_keep

\* the handle was never monitored before the first run of the behaviour: the
\* changes log starts with the first-time entry of run 1
FreshStart ==
    LoadLog(changes_file) = <<>> \/ LoadLog(changes_file)[1].timestamp >= 1

Min(a, b) == IF a <= b THEN a ELSE b

\* the runs whose entries the ledger holds, in ledger order
LedgerRuns == [i \in 1..Len(Ledger) |-> Val(Ledger[i]["timestamp"])]

\* C12: eviction is FIFO: after k consecutive runs with retention N the ledger
\* holds exactly the entries of the last min(k, N) runs, in run order, and the
\* entry of the most recent run is the last one.
C12_FifoEviction ==
    (RunReturned /\ FreshStart) =>
        LET k == runs
            m == Min(k, history_keep)
        IN /\ LedgerRuns = [i \in 1..m |-> k - m + i]
           /\ Len(Ledger) >= 1
           /\ LedgerRuns[Len(Ledger)] = k

\* C13: a write by write_json_atomic is atomic under a kill: in every step,
\* the kill included, each destination file keeps its complete old content or
\* becomes the complete new content handed to the call; it is never partial
\* and never goes missing when it existed.
C13_AtomicWrite ==
    [][\A a \in Artifacts :
          \/ Dest(a)' = Dest(a)
          \/ /\ pc = ReplacePc[a]
             /\ Dest(a)' = JsonFile(ArtifactData(a))]_vars

\* a second run is killed while it dumps the summary: the sibling is partial,
\* the summary of the first run is still there
C13_Witness ==
    /\ run_result = "killed"
    /\ runs = 2
    /\ tmp_files["summary"] = Partial
    /\ Tag(summary_file) = "json"
    /\ Val(Val(summary_file))["timestamp"] = JInt(1)

\* the run whose observation each artifact reflects (0: none)
StatsRun == IF Tag(stats_file) = "json" THEN Val(Val(Val(stats_file))["last_updated"]) ELSE 0
SummaryRun == IF Tag(summary_file) = "json" THEN Val(Val(Val(summary_file))["timestamp"]) ELSE 0
HistoryRun == IF Tag(history_file) = "json" THEN Val(history_file).last_updated ELSE 0
ArtifactRuns == <<StatsRun, SummaryRun, HistoryRun>>
RunBroken == pc = "down" /\ run_result \in {"killed", "raised_in_persist"}

\* C14: persistence does not partially apply: after a run that is killed or
\* fails at any point, summary, quick stats and history either all reflect the
\* new observation or all still reflect the previous one.
C14_AllOrNothing ==
    RunBroken =>
        \/ \A i \in 1..3 : ArtifactRuns[i] = runs
        \/ \A i \in 1..3 : ArtifactRuns[i] = runs - 1

\* C15: a failure while writing one of the three artifacts does not prevent
\* the remaining artifacts of the same run from being written: after the
\* failure at most one of them is not the one of this run.
C15_OtherArtifactsWritten ==
    (pc = "down" /\ run_result = "raised_in_persist") =>
        Cardinality({i \in 1..3 : ArtifactRuns[i] # runs}) <= 1

\* C16: the process exits non-zero only when the handle is empty after
\* normalization; every other monitoring run persists a snapshot and exits 0.
C16_NonZeroOnlyInvalidHandle ==
    Exited =>
        /\ ExitCode(run_result) # 0 => target_user = NoUser
        /\ target_user # NoUser => ExitCode(run_result) = 0 /\ SummaryRun = runs

\* both real strategies of the run in progress came back empty
AllStrategiesFailed ==
    /\ Len(tried) = 3
    /\ ~tried[1].produced
    /\ ~tried[2].produced

\* C17: first run for a never-seen handle with every strategy failing: the
\* persisted summary has method = fallback, followers = 0, is_private = true
\* and an error field, and the ledger has exactly one entry.
C17_FirstRunAllFail ==
    [][(pc = "persist" /\ runs = 1 /\ AllStrategiesFailed
            /\ summary_file = Absent /\ history_file = Absent) =>
         /\ Tag(summary_file') = "json"
         /\ Val(Val(summary_file'))["method"] = JStr("fallback")
         /\ Val(Val(summary_file'))["followers"] = JInt(0)
         /\ Val(Val(summary_file'))["is_private"] = JBool(TRUE)
         /\ Val(Val(summary_file'))["error"] # Missing
         /\ Tag(history_file') = "json"
         /\ Len(Val(history_file').entries) = 1]_vars

C17_Witness ==
    /\ RunReturned
    /\ runs = 1
    /\ Val(Val(summary_file))["method"] = JStr("fallback")
    /\ Len(Ledger) = 1
    /\ Ledger[1]["method"] = JStr("fallback")

\* the count descriptors that report a change from, or to, the value 0
FromZero == {i \in 1..Len(d_changes.changes_detected) :
                /\ Texts[i] \in {CountLabel[f] : f \in CountFields}
                /\ FormattedValue(d_changes.changes_detected[i].nums[1]) = 0}
ToZero == {i \in 1..Len(d_changes.changes_detected) :
              /\ Texts[i] \in {CountLabel[f] : f \in CountFields}
              /\ FormattedValue(d_changes.changes_detected[i].nums[2]) = 0}

\* C18: the zero placeholders of a degraded snapshot are never taken as
\* counts: when the previous snapshot is degraded no count descriptor reports
\* a change from 0, when the current one is degraded none reports a change
\* to 0.
C18_PlaceholderNotCompared ==
    (DetectDone /\ IsSnapshot(d_historical)) =>
        /\ Degraded(Previous) => FromZero = {}
        /\ Degraded(d_current) => ToZero = {}

Upper == {"B"}
Parsed == run_result \in {"invalid_handle", "handle_accepted"}

\* the argument needs no normalization: no sign in front, no white space
\* around, no uppercase letter
AlreadyNormal(raw) ==
    /\ raw # <<>> => Head(raw) \notin Whitespace \cup {"@"}
    /\ raw # <<>> => raw[Len(raw)] \notin Whitespace
    /\ \A i \in 1..Len(raw) : raw[i] \notin Upper

\* C20: normalization strips a leading "@", trims the surrounding white space
\* and lowercases the handle, rejects the input when the result is empty, and
\* changes nothing else: the result has no uppercase letter, an argument that
\* needs no normalization is kept as it is, and the handle is rejected
\* exactly when the result is empty.
C20_HandleNormalized ==
    Parsed =>
        /\ \A i \in 1..Len(handle) : handle[i] \notin Upper
        /\ AlreadyNormal(argv_user) => handle = argv_user
        /\ (run_result = "invalid_handle") <=> (handle = <<>>)

\* C23: the core never invokes a notifier itself: during a monitoring run
\* (acquire, detect, persist) send_email_notification is never called.
C23_NoNotifierInvoked == notifier_calls = <<>>

CompactFields ==
    {"username", "followers", "following", "posts", "last_updated", "is_private",
     "is_verified", "method", "profile_pic_url", "profile_pic_url_hd"}

StatsKeys == {f \in Fields : Val(Val(stats_file))[f] # Missing}

\* C25: the persisted quick-stats artifact has exactly the fields username,
\* followers, following, posts, last_updated, is_private, is_verified, method
\* and the profile picture URLs: bio, full_name, error and changes of the
\* snapshot are not in it.
C25_QuickStatsCompact ==
    Tag(stats_file) = "json" => StatsKeys = CompactFields

AuthDone == auth_pc = "done"

\* C24: the authenticated strategy reuses a persisted session when one exists
\* and logs in only when none exists, and a session obtained by login is never
\* written to the session store when CI is "true".
C24_SessionReuse ==
    AuthDone =>
        /\ auth_out.login => ~auth_env.session
        /\ auth_env.session => auth_out.session /\ ~auth_out.login
        /\ (auth_out.login /\ auth_env.ci) => ~auth_out.session

\* a login in CI that succeeded and fetched the profile: no session file
C24_Witness ==
    /\ AuthDone
    /\ auth_out.login
    /\ auth_env.ci
    /\ Truthy(auth_out.result)
    /\ ~auth_out.session

\* C22: the history ledger is non-decreasing in time: whatever runs have
\* happened, the timestamps of consecutive entries of the persisted ledger
\* never decrease.
C22_LedgerNonDecreasing ==
    \A i \in 1..(Len(Ledger) - 1) : LedgerRuns[i] <= LedgerRuns[i + 1]

\* two runs on a ledger that was full: entries were removed from the front
\* and two were appended at the end
C22_Witness ==
    /\ RunReturned
    /\ runs = 2
    /\ history_keep = MaxKeep
    /\ Len(Ledger) = MaxKeep
    /\ LedgerRuns[Len(Ledger)] = 2
    /\ LedgerRuns[Len(Ledger) - 1] = 1

EmptyHandle(raw) == NormalizeHandle(raw) = <<>>
BatchStarted == batch_pc \in {"loop", "exited"}

\* C21: no I/O is attempted for a handle that is empty after normalization:
\* no directory is made, no run is started and no file is touched on behalf
\* of an empty handle, and a batch (--batch-users or --queue-batch) whose
\* handles are all empty creates or modifies no file at all.
C21_NoIoForEmptyHandle ==
    /\ \A k \in 1..Len(io_log) : io_log[k].user # <<>>
    /\ (BatchStarted /\ \A i \in 1..Len(users_to_process) :
                            EmptyHandle(users_to_process[i]))
           => batch_file = Absent /\ io_log = <<>>

FetchAt(k) == k \in 1..Len(io_log) /\ io_log[k].ev = "fetch"

\* C28: a delay step separates every two consecutively processed handles of a
\* batch: between two runs of fetch_enhanced_profile_data there is a sleep.
C28_DelayBetweenHandles ==
    \A i, j \in 1..Len(io_log) :
        (i < j /\ FetchAt(i) /\ FetchAt(j)) =>
            \E k \in (i + 1)..(j - 1) : io_log[k].ev = "sleep"

Checked == pic_checks' = pic_checks + 1

NewSlots == {k \in 1..Len(pic_archive') : k > Len(pic_archive)}

Running == pc \notin {"idle", "down"}

\* C29: a run for handle H diffs against and appends to only state persisted
\* for H: the summary it loaded is empty or a summary of H, and the ledger it
\* loaded is empty or the ledger of H.
C29_OwnStateOnly ==
    Running =>
        /\ Truthy(historical_summary) =>
               Val(historical_summary)["username"] = JStr(target_user)
        /\ history_data.entries # <<>> => history_data.username = target_user

BothOver == \A p \in Procs : procs[p].pc \in {"done", "failed"}
LedgerHas(t) == \E i \in 1..Len(Ledger) : LedgerRuns[i] = t

\* C30: when two runs for the same handle directory overlap, after both are
\* over every artifact is a complete JSON document, neither run has failed and
\* the ledger holds the entry of either run.
C30_OverlapSafe ==
    BothOver =>
        /\ \A p \in Procs : procs[p].pc = "done"
        /\ \A a \in Artifacts : Tag(Dest(a)) \in {"json", "absent"}
        /\ Tag(history_file) = "json"
        /\ \A p \in Procs : LedgerHas(procs[p].now)

\* C31: when a batch (--batch-users or --queue-batch) has finished,
\* batch_summary.json has completed + failed = total_users and finished_at
\* set, whatever the handles were (empty after normalization, repeated).
C31_BatchSummaryComplete ==
    (batch_pc = "exited" /\ Tag(batch_file) = "json")
        => /\ Val(batch_file).completed + Val(batch_file).failed
                = Val(batch_file).total_users
           /\ Val(batch_file).finished_at

\* C32: with --update-queue, no queue entry is left in status "monitoring"
\* when the process has exited, also when the run was interrupted or raised.
C32_NoEntryLeftMonitoring ==
    (batch_pc = "exited" /\ update_queue /\ Tag(queue_file) = "json")
        => \A i \in 1..Len(Val(queue_file)) : Val(queue_file)[i].status # "monitoring"

\* r names count entries at most, all of them queued entries of the file,
\* each entry once, in ascending order of (priority, queue_position)
Selected(r, count, file) ==
    /\ Len(r) <= (IF count < 0 THEN 0 ELSE count)
    /\ IF Tag(file) # "json" THEN r = <<>>
       ELSE LET queue == Val(file)
            IN \E idx \in [1..Len(r) -> 1..Len(queue)] :
                /\ \A k \in 1..Len(r) :
                     /\ queue[idx[k]].status = "queued"
                     /\ queue[idx[k]].username = r[k]
                /\ \A k, j \in 1..Len(r) :
                     k < j => /\ idx[k] # idx[j]
                              /\ ~KeyLess(QueueKey(queue[idx[j]]), QueueKey(queue[idx[k]]))

\* C33: get_next_queued_users(count) returns at most count usernames, each
\* of a queue entry whose status is "queued", in ascending order of priority
\* and then of queue_position; entries of another status are never returned.
C33_NextQueuedUsers ==
    [][(batch_pc = "main" /\ mode = "queue_batch")
          => Selected(users_to_process', queue_count, queue_file)]_vars

\* no two entries of the queue have the same username, and total_users is
\* the number of entries
QueueConsistent(file) ==
    Tag(file) = "json" =>
        LET queue == Val(file).queue
        IN /\ \A i, j \in 1..Len(queue) : queue[i].username = queue[j].username => i = j
           /\ Val(file).total_users = Len(queue)

AllQueued(file, usernames) ==
    /\ Tag(file) = "json"
    /\ \A k \in 1..Len(usernames) :
         \E i \in 1..Len(Val(file).queue) : Val(file).queue[i].username = usernames[k]

\* C34: after any sequence of add_users_to_queue calls that starts without
\* a queue file, no two queue entries share a username (also when a username
\* occurs twice in one call) and total_users is the number of entries; a call
\* whose usernames are all queued already leaves the file unchanged.
C34_AddUsersNoDuplicates ==
    [][wf_pc = "ready"
          => /\ QueueConsistent(wf_file')
             /\ AllQueued(wf_file, wf_args'.usernames) => wf_file' = wf_file]_vars

\* C35: create_monitoring_queue never queues more than max_users entries,
\* for any friends data, any enabled categories and any max_users >= 0, and
\* the stored total_users is the length of the stored queue.
C35_QueueWithinMaxUsers ==
    (wf_pc = "done" /\ wf_args.op = "create" /\ wf_args.max_users >= 0
        /\ Tag(wf_file) = "json")
        => /\ Len(Val(wf_file).queue) <= wf_args.max_users
           /\ Val(wf_file).total_users = Len(Val(wf_file).queue)

\* a queue was cut to --max-users: every list of the friends analysis had
\* more entries than the queue took from it
C35_Witness ==
    /\ wf_pc = "done"
    /\ wf_args.op = "create"
    /\ wf_args.categories = Categories
    /\ wf_args.priority_mutual
    /\ wf_args.max_users = MaxUsers
    /\ Tag(wf_file) = "json"
    /\ Len(Val(wf_file).queue) = MaxUsers
    /\ \A c \in Categories : Len(Val(wf_friends)[c]) = MaxFriends

\* C36: changes_log.json receives a new entry in a run exactly when the
\* run's final change set has has_changes = true: the entry goes to the end,
\* the log keeps at most 50 entries and drops the oldest first; a run without
\* changes, and every other step of a run, leaves the file as it is.
C36_ChangesLogBounded ==
    [][IF pc = "persist" /\ changes.has_changes
       THEN LET log == LoadLog(changes_file)
                new == LoadLog(changes_file')
                kept == IF Len(log) < ChangesLogKeep THEN Len(log) ELSE ChangesLogKeep - 1
            IN /\ Len(new) = kept + 1
               /\ Len(new) <= ChangesLogKeep
               /\ new[Len(new)] = ChangeSet(changes)
               /\ SubSeq(new, 1, kept) = SubSeq(log, Len(log) - kept + 1, Len(log))
       ELSE changes_file' = changes_file]_vars

\* a full log took the entry of a run and dropped its oldest entry
C36_Witness ==
    LET log == LoadLog(changes_file)
    IN /\ Len(log) = ChangesLogKeep
       /\ log[Len(log)].timestamp >= 1
       /\ log[1].timestamp = 2 - ChangesLogKeep

Stored(k) == load_config(srv_file)[k]
Shown(k) == srv_response.config[k]
GetServed == srv_request.method = "GET"

C38_GetThenPostIsNoOp ==
    [][(GetServed /\ srv_request'.method = "POST" /\ srv_request'.kind = "json"
            /\ srv_request'.body = srv_response.config)
          => load_config(srv_file') = load_config(srv_file)]_vars

\* C39: POST /api/config changes only the keys that are in the request and
\* known in DEFAULT_CONFIG: unknown request keys are ignored, absent keys keep
\* their stored value; a body that is no JSON leaves the stored configuration
\* unchanged and gets an error response.
C39_PostFrame ==
    [][srv_request'.method = "POST"
          => IF srv_request'.kind = "json"
             THEN \A k \in CfgKeys :
                    load_config(srv_file')[k] =
                        IF k \in KnownKeys /\ srv_request'.body[k] # Missing
                        THEN srv_request'.body[k]
                        ELSE load_config(srv_file)[k]
             ELSE /\ srv_file' = srv_file
                  /\ ~srv_response'.success
                  /\ srv_response'.code >= 400]_vars

\* a POST with a known and an unknown key was served: the known key is
\* stored, the unknown one is not, the password that was not sent is kept
C39_Witness ==
    /\ srv_request.method = "POST"
    /\ srv_request.kind = "json"
    /\ srv_request.body["theme"] = JStr("dark")
    /\ srv_request.body["smtpHost"] = JStr("h")
    /\ srv_request.body["smtpPassword"] = Missing
    /\ Tag(srv_file) = "json"
    /\ Val(srv_file)["theme"] = Missing
    /\ Val(srv_file)["smtpHost"] = JStr("h")
    /\ Val(srv_file)["smtpPassword"] = JStr("s3cret")

====
